---- MODULE Spec2Model ----
(***************************************************************************)
(* The embedding cache of DocumentManager (src/src/main.py): the record    *)
(* files under embeddings/, the pickled snapshot, the metadata file, the   *)
(* in-memory cache, document ingestion, the provider retry loop, cosine    *)
(* similarity, the two retrieval operations and the retry loop of          *)
(* ChatBot.chat; two managers on one directory, two runs that find         *)
(* different metadata, and a process that ends inside add_document.        *)
(***************************************************************************)
EXTENDS Integers, Sequences, FiniteSets, TLC

\* ------------------------------------------------------------------ bounds
\* Largest max_retries argument tried on a direct generate_embedding call.
MaxRetriesArg == 3
\* Largest max_retries argument tried when the waits of the two retry loops
\* are compared.
MaxBackoffRetries == 4
\* The largest max_retries passed to chat when its searches are followed.
MaxChatRetries == 3

\* ------------------------------------------------------- program constants
\* generate_embedding(self, text, max_retries=3)
DefaultMaxRetries == 3
\* wait_time = (attempt + 1) * 2 after a RateLimitError
RateLimitStep == 2
\* time.sleep(1) after an APITimeoutError
TimeoutWait == 1
\* time.sleep(2) after an APIConnectionError
ConnectionWait == 2
\* ChatBot.chat: wait_time = (attempt + 1) * 2, time.sleep(1), time.sleep(2)
ChatRateLimitStep == 2
ChatTimeoutWait == 1
ChatConnectionWait == 2

\* The document ids (file stems) of the runs. With two ids the cache keys and
\* the stems on disk can be equal, disjoint, or either a proper part of the
\* other.
Ids == {"a", "b"}

\* ------------------------------------------------------------------- text
\* A text is a sequence of characters; " " and "\n" are whitespace.
Whitespace == {" ", "\n"}

RECURSIVE LStrip(_)
LStrip(s) ==
    IF s # <<>> /\ Head(s) \in Whitespace THEN LStrip(Tail(s)) ELSE s

RECURSIVE RStrip(_)
RStrip(s) ==
    IF s # <<>> /\ s[Len(s)] \in Whitespace
    THEN RStrip(SubSeq(s, 1, Len(s) - 1))
    ELSE s

\* str.strip()
Strip(s) == RStrip(LStrip(s))

\* --------------------------------------------------------------- records
\* The texts the runs embed, and the vector the provider computes for each.
TextX == <<"x">>
TextY == <<" ", "y">>
TextZ == <<"z">>
Embedding(text) ==
    CASE text = TextX -> <<1, 0>>
      [] text = TextZ -> <<0, 0>>
      [] OTHER -> <<0, 1>>

\* The state of one record file embeddings/<id>.json, and the parsed record.
AbsentFile == [kind |-> "absent", file_type |-> "", content |-> <<>>, embedding |-> <<>>]
CorruptFile == [kind |-> "corrupt", file_type |-> "", content |-> <<>>, embedding |-> <<>>]

\* doc_info of add_document (original_filename and original_path follow from
\* the id and file_type; added_date is a timestamp no operation reads).
DocInfo(ext, content, embedding) ==
    [kind |-> "doc", file_type |-> ext, content |-> content, embedding |-> embedding]

\* A dict id -> record is the sequence of its items in iteration (insertion)
\* order, each key once.
EmptyCache == <<>>
Item(k, v) == [id |-> k, doc |-> v]

\* d.keys() as a set, len(d), k in d, d[k]
Keys(d) == {d[n].id : n \in 1..Len(d)}
Has(d, k) == k \in Keys(d)
Get(d, k) == d[CHOOSE n \in 1..Len(d) : d[n].id = k].doc

\* Mutant of DictSet: the item is appended whether or not the key is held.
DictSetAppending(d, k, v) == Append(d, Item(k, v))

\* d[k] = v: an existing key keeps its place, a new key goes last.
DictSet(d, k, v) ==
    IF Has(d, k)
    THEN [d EXCEPT ![CHOOSE n \in 1..Len(d) : d[n].id = k] = Item(k, v)]
    ELSE Append(d, Item(k, v))

\* The orders in which a set of ids can be enumerated.
Orders(S) == {o \in [1..Cardinality(S) -> S] : \A m, n \in DOMAIN o : o[m] = o[n] => m = n}

\* The stems of embeddings_dir.glob("*.json").
GlobStems(dir) == {i \in DOMAIN dir : dir[i].kind # "absent"}

\* The stems whose file json.load parses.
ParseableStems(dir) == {i \in DOMAIN dir : dir[i].kind = "doc"}

\* ------------------------------------------------------------- metadata
\* A metadata dict; "" (or -1) stands for a key the dict does not hold.
EmptyMeta ==
    [isdict |-> TRUE, last_built |-> "", last_updated |-> "",
     total_documents |-> -1, cache_version |-> ""]

\* A parsed metadata file that holds valid JSON which is no object.
NonDictMeta == [EmptyMeta EXCEPT !.isdict = FALSE]

\* cache_metadata as build_cache sets it.
BuiltMeta(cache) ==
    [EmptyMeta EXCEPT !.last_built = "ts",
                      !.total_documents = Len(cache),
                      !.cache_version = "1.0"]

AbsentArtifact(empty) == [kind |-> "absent", val |-> empty]
CorruptArtifact(empty) == [kind |-> "corrupt", val |-> empty]
Saved(v) == [kind |-> "saved", val |-> v]
\* A snapshot that unpickles to a value that is no dict (a list).
NotMappingArtifact(empty) == [kind |-> "notdict", val |-> empty]

\* ------------------------------------------------------ embedding provider
Transient == {"RateLimitError", "APITimeoutError", "APIConnectionError"}
\* "OpenAIError": any other OpenAIError; "Exception": anything else raised.
NonTransient == {"OpenAIError", "Exception"}

ProviderOk(v) == [kind |-> "ok", embedding |-> v]
ProviderFails(e) == [kind |-> e, embedding |-> <<>>]

\* What one client.embeddings.create(input=text) call can answer.
ProviderResponses(text) ==
    {ProviderOk(Embedding(text))} \cup {ProviderFails(e) : e \in Transient \cup NonTransient}

\* The provider's answers to the successive calls of one retry loop.
Scripts(text, n) == [1..n -> ProviderResponses(text)]

\* The outcome of generate_embedding: it returns an embedding, returns None
\* (the loop body never ran), or raises err; calls and waits are what it did.
Returned(v, calls, waits) ==
    [ret |-> "embedding", embedding |-> v, err |-> "", calls |-> calls, waits |-> waits]
ReturnedNone(calls, waits) ==
    [ret |-> "None", embedding |-> <<>>, err |-> "", calls |-> calls, waits |-> waits]
Raised(e, calls, waits) ==
    [ret |-> "raise", embedding |-> <<>>, err |-> e, calls |-> calls, waits |-> waits]

\* The sleep before the next attempt, attempt counted from 0 as in the loop.
WaitTime(kind, attempt) ==
    CASE kind = "RateLimitError" -> (attempt + 1) * RateLimitStep
      [] kind = "APITimeoutError" -> TimeoutWait
      [] kind = "APIConnectionError" -> ConnectionWait

\* Mutant of Retries: the last attempt waits and retries like the others.
RetriesOnLastAttempt(attempt, max_retries) == attempt < max_retries

\* Whether a transient failure on this attempt is retried.
Retries(attempt, max_retries) == attempt < max_retries - 1

\* Mutant of Attempt: `except OpenAIError` waits and retries as the connection
\* arm does.
RECURSIVE AttemptRetryingApiErrors(_, _, _, _)
AttemptRetryingApiErrors(script, max_retries, attempt, waits) ==
    IF attempt >= max_retries
    THEN ReturnedNone(attempt, waits)
    ELSE LET r == script[attempt + 1] IN
         IF r.kind = "ok"
         THEN Returned(r.embedding, attempt + 1, waits)
         ELSE IF r.kind \in Transient /\ Retries(attempt, max_retries)
         THEN AttemptRetryingApiErrors(script, max_retries, attempt + 1,
                      Append(waits, WaitTime(r.kind, attempt)))
         ELSE IF r.kind = "OpenAIError" /\ Retries(attempt, max_retries)
         THEN AttemptRetryingApiErrors(script, max_retries, attempt + 1,
                      Append(waits, ConnectionWait))
         ELSE Raised(r.kind, attempt + 1, waits)

\* Mutant of Attempt: when the attempts are used up the failure of the first
\* attempt is raised.
RECURSIVE AttemptRaisingFirstFailure(_, _, _, _)
AttemptRaisingFirstFailure(script, max_retries, attempt, waits) ==
    IF attempt >= max_retries
    THEN ReturnedNone(attempt, waits)
    ELSE LET r == script[attempt + 1] IN
         IF r.kind = "ok"
         THEN Returned(r.embedding, attempt + 1, waits)
         ELSE IF r.kind \in Transient /\ Retries(attempt, max_retries)
         THEN AttemptRaisingFirstFailure(script, max_retries, attempt + 1,
                      Append(waits, WaitTime(r.kind, attempt)))
         ELSE Raised(script[1].kind, attempt + 1, waits)

\* for attempt in range(max_retries): the loop from `attempt` on.
RECURSIVE Attempt(_, _, _, _)
Attempt(script, max_retries, attempt, waits) ==
    IF attempt >= max_retries
    THEN ReturnedNone(attempt, waits)
    ELSE LET r == script[attempt + 1] IN
         IF r.kind = "ok"
         THEN Returned(r.embedding, attempt + 1, waits)
         ELSE IF r.kind \in Transient /\ Retries(attempt, max_retries)
         THEN Attempt(script, max_retries, attempt + 1,
                      Append(waits, WaitTime(r.kind, attempt)))
         ELSE Raised(r.kind, attempt + 1, waits)

GenerateEmbedding(script, max_retries) == Attempt(script, max_retries, 0, <<>>)

\* --------------------------------------------------------- ChatBot.chat
\* One attempt of the loop of chat: whether its search_by_query call returned
\* any document, and what client.chat.completions.create then answers.
ChatStep(found, kind) == [found |-> found, kind |-> kind]
ChatSteps ==
    {ChatStep(FALSE, "ok")}
        \cup {ChatStep(TRUE, k) : k \in {"ok"} \cup Transient \cup NonTransient}
ChatScripts(n) == [1..n -> ChatSteps]

\* What chat returns (None when the loop body never ran), the search_by_query
\* and completion calls it made, and its own waits.
ChatReturned(reply, searches, calls, waits) ==
    [reply |-> reply, searches |-> searches, calls |-> calls, waits |-> waits]

\* The message chat returns for a failure it does not retry.
ChatSorry(kind) ==
    CASE kind = "RateLimitError" -> "high demand"
      [] kind = "APITimeoutError" -> "timed out"
      [] kind = "APIConnectionError" -> "trouble connecting"
      [] kind = "OpenAIError" -> "API error"
      [] OTHER -> "unexpected error"

\* Mutant of ChatWaitTime: the rate-limit wait does not grow with the attempt.
ChatWaitTimeFlat(kind, attempt) ==
    CASE kind = "RateLimitError" -> ChatRateLimitStep
      [] kind = "APITimeoutError" -> ChatTimeoutWait
      [] kind = "APIConnectionError" -> ChatConnectionWait

\* The sleep of chat before its next attempt, attempt counted from 0.
ChatWaitTime(kind, attempt) ==
    CASE kind = "RateLimitError" -> (attempt + 1) * ChatRateLimitStep
      [] kind = "APITimeoutError" -> ChatTimeoutWait
      [] kind = "APIConnectionError" -> ChatConnectionWait

\* for attempt in range(max_retries) of chat: the loop from `attempt` on.
RECURSIVE ChatAttempt(_, _, _, _)
ChatAttempt(script, max_retries, attempt, waits) ==
    IF attempt >= max_retries
    THEN ChatReturned("None", attempt, attempt, waits)
    ELSE LET r == script[attempt + 1] IN
         IF ~r.found
         THEN ChatReturned("no information", attempt + 1, attempt, waits)
         ELSE IF r.kind = "ok"
         THEN ChatReturned("answer", attempt + 1, attempt + 1, waits)
         ELSE IF r.kind \in Transient /\ attempt < max_retries - 1
         THEN ChatAttempt(script, max_retries, attempt + 1,
                          Append(waits, ChatWaitTime(r.kind, attempt)))
         ELSE ChatReturned(ChatSorry(r.kind), attempt + 1, attempt + 1, waits)

Chat(script, max_retries) == ChatAttempt(script, max_retries, 0, <<>>)

\* The outcomes of generate_embedding(text) with the default max_retries, as
\* its callers see them: what it returned or raised and the calls it made.
Seen(g) == [ret |-> g.ret, embedding |-> g.embedding, err |-> g.err, calls |-> g.calls]
\* The provider of these calls fails in one way, up to some attempt or on all
\* of them (SpecRetry tries every script).
DefaultScripts(text) ==
    {s \in Scripts(text, DefaultMaxRetries) :
        \A k \in 2..DefaultMaxRetries :
            s[k] = s[1] \/ (s[1].kind \in Transient /\ s[k].kind = "ok")}
DefaultOutcomes(text) ==
    {Seen(GenerateEmbedding(s, DefaultMaxRetries)) : s \in DefaultScripts(text)}
\* The same for the texts of the runs, computed once.
OutcomesX == DefaultOutcomes(TextX)
OutcomesY == DefaultOutcomes(TextY)
OutcomesZ == DefaultOutcomes(TextZ)
Outcomes(text) ==
    CASE text = TextX -> OutcomesX
      [] text = TextZ -> OutcomesZ
      [] OTHER -> OutcomesY

\* ------------------------------------------------------------ source files
ImageExts == {".png", ".jpg", ".jpeg", ".gif", ".bmp", ".tiff"}
TextExts == {".txt", ".md"}
WordExts == {".doc", ".docx"}

\* A file handed to add_document. `text` is what reading it yields, or for a
\* PDF or an image what the extraction collaborator returns ("" on failure);
\* `read` is "ok" or the error open()/read() raises.
SourceFile(stem, ext, exists, read, text) ==
    [stem |-> stem, ext |-> ext, exists |-> exists, read |-> read, text |-> text]

SourceFiles ==
    UNION {
        { SourceFile(i, ".txt", FALSE, "ok", TextX),
          SourceFile(i, ".txt", TRUE, "ok", TextX),
          SourceFile(i, ".txt", TRUE, "ok", <<>>),
          SourceFile(i, ".md", TRUE, "ok", <<" ", "\n">>),
          SourceFile(i, ".txt", TRUE, "UnicodeDecodeError", TextX),
          SourceFile(i, ".pdf", TRUE, "ok", TextY),
          SourceFile(i, ".pdf", TRUE, "ok", <<>>),
          SourceFile(i, ".png", TRUE, "ok", <<>>),
          SourceFile(i, ".docx", TRUE, "PermissionError", TextX),
          SourceFile(i, ".xyz", TRUE, "ok", TextX) } : i \in Ids }

Extracted(text) == [raised |-> "", text |-> text]
ExtractRaises(e) == [raised |-> e, text |-> <<>>]

\* extract_text_from_file
ExtractTextFromFile(f) ==
    CASE f.ext = ".pdf" -> Extracted(f.text)
      [] f.ext \in ImageExts -> Extracted(f.text)
      [] f.ext \in TextExts ->
            IF f.read = "ok" THEN Extracted(f.text) ELSE ExtractRaises(f.read)
      [] f.ext \in WordExts ->
            IF f.read = "ok" THEN Extracted(f.text) ELSE Extracted(<<>>)
      [] OTHER -> Extracted(<<>>)

\* Mutant of IsEmptyContent: the text is tested without strip().
IsEmptyContentUnstripped(content) == content = <<>>

\* if not content.strip(): raise ValueError
IsEmptyContent(content) == Strip(content) = <<>>

\* How writing embeddings/<id>.json can end: written, open() refused (the
\* file is as before), or the write failing after open() truncated the file.
WriteOutcomes == {"ok", "PermissionError", "OSError"}

\* ----------------------------------------------------------- cache layer
\* Mutant of IsCacheValid: the cached records are compared with the files too.
IsCacheValidByContent(dir, cache) ==
    /\ GlobStems(dir) = Keys(cache)
    /\ \A n \in 1..Len(cache) : cache[n].doc = dir[cache[n].id]

\* Mutant of IsCacheValid: the two counts are compared, as in its message.
IsCacheValidByCount(dir, cache) == Cardinality(GlobStems(dir)) = Len(cache)

\* is_cache_valid: the stems on disk against the cache keys.
IsCacheValid(dir, cache) == GlobStems(dir) = Keys(cache)

\* Whether the loop of build_cache keeps a file: json.load parses it.
Loads(file) == file.kind = "doc"

\* Mutant of BuildCacheEntries: the first file that does not load ends the loop.
RECURSIVE BuildCacheEntriesAborting(_, _)
BuildCacheEntriesAborting(dir, globbed) ==
    IF globbed = <<>> \/ ~Loads(dir[Head(globbed)])
    THEN EmptyCache
    ELSE <<Item(Head(globbed), dir[Head(globbed)])>>
            \o BuildCacheEntriesAborting(dir, Tail(globbed))

\* The loop of build_cache over the files in glob order: every file that
\* loads is entered under its stem, the others are skipped.
RECURSIVE BuildCacheEntries(_, _)
BuildCacheEntries(dir, globbed) ==
    IF globbed = <<>>
    THEN EmptyCache
    ELSE LET file == dir[Head(globbed)]
             rest == BuildCacheEntries(dir, Tail(globbed))
         IN IF Loads(file) THEN <<Item(Head(globbed), file)>> \o rest ELSE rest

\* pickle.load of the snapshot in load_or_build_cache, {} when it is absent
\* or cannot be loaded (for a snapshot that is no dict: see HasKeys).
LoadCache(file) == IF file.kind = "saved" THEN file.val ELSE EmptyCache

\* Mutant of HasKeys: whatever was unpickled is taken for a dict.
HasKeysUnchecked(file) == TRUE

\* Whether self.embeddings_cache.keys() works on what was loaded from the
\* snapshot; is_cache_valid answers False when it raises.
HasKeys(file) == file.kind # "notdict"

\* json.load of the metadata file in load_or_build_cache.
LoadMetadata(file) == IF file.kind = "saved" THEN file.val ELSE EmptyMeta

\* save_cache: pickle.dump(self.embeddings_cache)
SaveCache(cache) == Saved(cache)

\* save_cache_metadata: json.dump(self.cache_metadata)
SaveCacheMetadata(md) == Saved(md)

\* Mutant of UpdatedMeta: total_documents is left as it was.
UpdatedMetaUncounted(md, cache) == [md EXCEPT !.last_updated = "ts"]

\* The metadata update at the end of add_document.
UpdatedMeta(md, cache) ==
    [md EXCEPT !.last_updated = "ts", !.total_documents = Len(cache)]

\* The values of `dimensions` in check_embedding_dimensions: the length of
\* doc.get("embedding", []) of every cached record.
UniqueDims(cache) == {Len(cache[n].doc.embedding) : n \in 1..Len(cache)}

\* Mutant of DimensionsConsistent: an empty cache is not told apart.
DimensionsConsistentOrEmpty(cache) == Cardinality(UniqueDims(cache)) = 1

\* return len(unique_dims) == 1 if dimensions else True
DimensionsConsistent(cache) ==
    IF cache # EmptyCache THEN Cardinality(UniqueDims(cache)) = 1 ELSE TRUE

\* ------------------------------------------------------------ similarity
\* A similarity or a threshold is the fraction num/den, den > 0. The vectors
\* of the runs have integer components and an integer norm, so that every
\* value cosine_similarity computes on them is such a fraction, exactly.
Rat(num, den) == [num |-> num, den |-> den]
Zero == Rat(0, 1)

\* x >= y and x == y on fractions
RatGeq(x, y) == x.num * y.den >= y.num * x.den
RatEq(x, y) == x.num * y.den = y.num * x.den

\* threshold=0.7, the default of find_similar_documents and search_by_query
DefaultThreshold == Rat(7, 10)

\* A threshold argument that is no number (a string, None): the fraction
\* without denominator.
NotAThreshold == Rat(0, 0)
IsNumber(threshold) == threshold.den # 0

\* A component of a stored embedding that is no number (a JSON string).
NotANumber == -99
IsNumeric(v) == \A n \in 1..Len(v) : v[n] # NotANumber

\* np.dot(v, w) of two vectors of one length
RECURSIVE Dot(_, _)
Dot(v, w) == IF v = <<>> THEN 0 ELSE Head(v) * Head(w) + Dot(Tail(v), Tail(w))

\* np.linalg.norm(v)
Norm(v) == CHOOSE r \in 0..Dot(v, v) : r * r = Dot(v, v)

\* What a call of cosine_similarity ends with: the value it returns, or the
\* exception it raises.
CosineReturns(value) == [raised |-> "", value |-> value]
CosineRaises(e) == [raised |-> e, value |-> Zero]

\* Mutant of CosineComputed: no shape check; vectors of different lengths
\* are compared over their common length.
CosineComputedUnchecked(embedding1, embedding2) ==
    LET m == IF Len(embedding1) < Len(embedding2) THEN Len(embedding1) ELSE Len(embedding2)
        v == SubSeq(embedding1, 1, m)
        w == SubSeq(embedding2, 1, m)
    IN IF ~IsNumeric(v) \/ ~IsNumeric(w)
       THEN CosineRaises("TypeError")
       ELSE IF Norm(v) = 0 \/ Norm(w) = 0
       THEN CosineReturns(Zero)
       ELSE CosineReturns(Rat(Dot(v, w), Norm(v) * Norm(w)))

\* Mutant of CosineComputed: the dot product is divided by the square of the
\* first norm.
CosineComputedByFirstNorm(embedding1, embedding2) ==
    IF Len(embedding1) # Len(embedding2)
    THEN CosineReturns(Zero)
    ELSE IF ~IsNumeric(embedding1) \/ ~IsNumeric(embedding2)
    THEN CosineRaises("TypeError")
    ELSE IF Norm(embedding1) = 0 \/ Norm(embedding2) = 0
    THEN CosineReturns(Zero)
    ELSE CosineReturns(Rat(Dot(embedding1, embedding2),
                           Norm(embedding1) * Norm(embedding1)))

\* Mutant of CosineComputed: embeddings of different lengths are given the
\* similarity -1, below every similarity of two embeddings that is kept at
\* threshold 0.
CosineComputedMarkingMismatch(embedding1, embedding2) ==
    IF Len(embedding1) # Len(embedding2)
    THEN CosineReturns(Rat(-1, 1))
    ELSE IF ~IsNumeric(embedding1) \/ ~IsNumeric(embedding2)
    THEN CosineRaises("TypeError")
    ELSE IF Norm(embedding1) = 0 \/ Norm(embedding2) = 0
    THEN CosineReturns(Zero)
    ELSE CosineReturns(Rat(Dot(embedding1, embedding2),
                           Norm(embedding1) * Norm(embedding2)))

\* The try block of cosine_similarity.
CosineComputed(embedding1, embedding2) ==
    IF Len(embedding1) # Len(embedding2)
    THEN CosineReturns(Zero)
    ELSE IF ~IsNumeric(embedding1) \/ ~IsNumeric(embedding2)
    THEN CosineRaises("TypeError")
    ELSE IF Norm(embedding1) = 0 \/ Norm(embedding2) = 0
    THEN CosineReturns(Zero)
    ELSE CosineReturns(Rat(Dot(embedding1, embedding2),
                           Norm(embedding1) * Norm(embedding2)))

\* Mutant of CosineSimilarity: no except clause around the computation.
CosineSimilarityUnguarded(embedding1, embedding2) ==
    CosineComputed(embedding1, embedding2)

\* cosine_similarity: the try block, and 0.0 for any exception it raises.
CosineSimilarity(embedding1, embedding2) ==
    LET c == CosineComputed(embedding1, embedding2) IN
    IF c.raised # "" THEN CosineReturns(Zero) ELSE c

\* ------------------------------------------------------------- retrieval
\* The preview length of the content field of a search result.
PreviewLength == 2000
Ellipsis == <<".", ".", ".">>

\* Mutant of Preview: the content is cut at the preview length and nothing
\* is appended.
PreviewCut(content) ==
    IF Len(content) > PreviewLength THEN SubSeq(content, 1, PreviewLength) ELSE content

\* doc.get("content", "")[:2000] + "..." if len(doc.get("content", "")) > 2000
\* else doc.get("content", "")
Preview(content) ==
    IF Len(content) > PreviewLength
    THEN SubSeq(content, 1, PreviewLength) \o Ellipsis
    ELSE content

\* Mutant of Passes: the threshold is exclusive.
PassesStrictly(similarity, threshold) == ~RatGeq(threshold, similarity)

\* if similarity >= threshold
Passes(similarity, threshold) == RatGeq(similarity, threshold)

\* The entry find_similar_documents appends (it carries no content), and the
\* one search_by_query appends.
SimilarDoc(item, similarity) ==
    [id |-> item.id, file_type |-> item.doc.file_type,
     similarity |-> similarity, content |-> <<>>]
MatchingDoc(item, similarity) ==
    [SimilarDoc(item, similarity) EXCEPT !.content = Preview(item.doc.content)]

\* Mutant of SimilarDocs: the query document is compared like the others.
RECURSIVE SimilarDocsWithQuery(_, _, _, _)
SimilarDocsWithQuery(items, query_doc_id, query_embedding, threshold) ==
    IF items = <<>>
    THEN <<>>
    ELSE LET item == Head(items)
             rest == SimilarDocsWithQuery(Tail(items), query_doc_id, query_embedding, threshold)
             similarity == CosineSimilarity(query_embedding, item.doc.embedding).value
         IN IF item.doc.embedding = <<>> THEN rest
            ELSE IF Passes(similarity, threshold)
            THEN <<SimilarDoc(item, similarity)>> \o rest
            ELSE rest

\* The loop of find_similar_documents over the cache items, in their order.
RECURSIVE SimilarDocs(_, _, _, _)
SimilarDocs(items, query_doc_id, query_embedding, threshold) ==
    IF items = <<>>
    THEN <<>>
    ELSE LET item == Head(items)
             rest == SimilarDocs(Tail(items), query_doc_id, query_embedding, threshold)
             similarity == CosineSimilarity(query_embedding, item.doc.embedding).value
         IN IF item.id = query_doc_id THEN rest
            ELSE IF item.doc.embedding = <<>> THEN rest
            ELSE IF Passes(similarity, threshold)
            THEN <<SimilarDoc(item, similarity)>> \o rest
            ELSE rest

\* The loop of search_by_query over the cache items, in their order.
RECURSIVE MatchingDocs(_, _, _)
MatchingDocs(items, query_embedding, threshold) ==
    IF items = <<>>
    THEN <<>>
    ELSE LET item == Head(items)
             rest == MatchingDocs(Tail(items), query_embedding, threshold)
             similarity == CosineSimilarity(query_embedding, item.doc.embedding).value
         IN IF item.doc.embedding = <<>> THEN rest
            ELSE IF Passes(similarity, threshold)
            THEN <<MatchingDoc(item, similarity)>> \o rest
            ELSE rest

\* Mutant of InsertBySimilarity: an entry goes before those of equal
\* similarity, as sorting ascending and reversing would place it.
RECURSIVE InsertBeforeEqual(_, _)
InsertBeforeEqual(sorted, x) ==
    IF sorted = <<>>
    THEN <<x>>
    ELSE IF RatGeq(x.similarity, Head(sorted).similarity)
    THEN <<x>> \o sorted
    ELSE <<Head(sorted)>> \o InsertBeforeEqual(Tail(sorted), x)

\* Where list.sort(key=similarity, reverse=True) leaves an entry among those
\* before it in the list: after every entry of greater or equal similarity.
RECURSIVE InsertBySimilarity(_, _)
InsertBySimilarity(sorted, x) ==
    IF sorted = <<>>
    THEN <<x>>
    ELSE IF RatGeq(Head(sorted).similarity, x.similarity)
    THEN <<Head(sorted)>> \o InsertBySimilarity(Tail(sorted), x)
    ELSE <<x>> \o sorted

RECURSIVE SortFrom(_, _)
SortFrom(sorted, docs) ==
    IF docs = <<>>
    THEN sorted
    ELSE SortFrom(InsertBySimilarity(sorted, Head(docs)), Tail(docs))

\* similar_docs.sort(key=lambda x: x["similarity"], reverse=True)
SortBySimilarity(docs) == SortFrom(<<>>, docs)

\* What the second try block of search_by_query ends with: the list it
\* returns, or the exception it raises (caught: the exception its except
\* clause reported).
ScanReturns(out) == [raised |-> "", caught |-> "", out |-> out]
ScanRaises(e) == [raised |-> e, caught |-> "", out |-> <<>>]

\* The try block around the loop and the sort of search_by_query:
\* similarity >= threshold raises TypeError at the first entry that has an
\* embedding when the threshold is no number.
SearchScanComputed(cache, query_embedding, threshold) ==
    IF ~IsNumber(threshold) /\ \E n \in 1..Len(cache) : cache[n].doc.embedding # <<>>
    THEN ScanRaises("TypeError")
    ELSE ScanReturns(SortBySimilarity(MatchingDocs(cache, query_embedding, threshold)))

\* Mutant of SearchScan: no except clause around the loop.
SearchScanUnguarded(cache, query_embedding, threshold) ==
    SearchScanComputed(cache, query_embedding, threshold)

\* The try block with its except clause: any exception is reported and []
\* returned.
SearchScan(cache, query_embedding, threshold) ==
    LET c == SearchScanComputed(cache, query_embedding, threshold) IN
    IF c.raised # ""
    THEN [raised |-> "", caught |-> c.raised, out |-> <<>>]
    ELSE c

VARIABLES
    pc,                   \* "off": no manager constructed; "ready": constructed
    embeddings_dir,       \* id -> state of embeddings/<id>.json
    cache_file,           \* embeddings_cache.pkl
    cache_metadata_file,  \* cache_metadata.json
    embeddings_cache,     \* self.embeddings_cache
    cache_metadata,       \* self.cache_metadata
    res,                  \* outcome of the last DocumentManager operation
    call,                 \* log of the last direct generate_embedding or chat call
    peer                  \* a second manager on the same directory, set aside
                          \* while this one runs: its pc and in-memory state

vars == <<pc, embeddings_dir, cache_file, cache_metadata_file,
          embeddings_cache, cache_metadata, res, call, peer>>

disk == <<embeddings_dir, cache_file, cache_metadata_file>>
memory == <<embeddings_cache, cache_metadata>>

\* ------------------------------------------------------------- outcomes
\* op: the operation; stem: the doc_id it worked on; err: the exception it raised
\* ("" when it returned); caught: the exception it caught and reported before
\* returning; valid: what is_cache_valid answered inside it; rebuilt: whether
\* build_cache ran; calls: the provider calls made; doc: the record built;
\* extracted, content: whether add_document got a text from its file, and the
\* text it got when it then raised; threshold: the threshold argument; query:
\* the query embedding of a retrieval (the first argument of a direct
\* cosine_similarity call); other: the second argument of such a call;
\* similarity: what the call returned; out: the list a retrieval returned;
\* consistent: what check_embedding_dimensions returned.
NoRes ==
    [op |-> "", stem |-> "", err |-> "", caught |-> "", valid |-> FALSE,
     consistent |-> FALSE, rebuilt |-> FALSE, calls |-> 0, doc |-> AbsentFile,
     extracted |-> FALSE, content |-> <<>>,
     threshold |-> Zero, query |-> <<>>, other |-> <<>>, similarity |-> Zero,
     out |-> <<>>]
NoCall ==
    [op |-> "", max_retries |-> 0, script |-> <<>>,
     out |-> ReturnedNone(0, <<>>)]

\* No second manager is constructed.
NoPeer == [pc |-> "off", embeddings_cache |-> EmptyCache, cache_metadata |-> EmptyMeta]

Done(op) == [NoRes EXCEPT !.op = op]
DoneOn(op, stem) == [NoRes EXCEPT !.op = op, !.stem = stem]
Failed(op, err, calls) == [NoRes EXCEPT !.op = op, !.err = err, !.calls = calls]

\* ---------------------------------------------------------- initial state
\* The records found on disk before the manager starts.
InitDocs ==
    {DocInfo(".txt", TextX, Embedding(TextX)), DocInfo(".pdf", TextY, Embedding(TextY))}

InitSnapshots ==
    UNION {{[n \in DOMAIN o |-> Item(o[n], d[o[n]])] : o \in Orders(S), d \in [S -> InitDocs]}
           : S \in SUBSET Ids}

InitMetadata ==
    {EmptyMeta, NonDictMeta,
     [EmptyMeta EXCEPT !.last_built = "ts", !.total_documents = 0, !.cache_version = "1.0"]}

\* No manager is constructed yet; the storage directory holds anything an
\* earlier run or the operator left there.
Init ==
    /\ pc = "off"
    /\ embeddings_dir \in [Ids -> {AbsentFile, CorruptFile} \cup InitDocs]
    /\ cache_file \in {AbsentArtifact(EmptyCache), CorruptArtifact(EmptyCache),
                        NotMappingArtifact(EmptyCache)}
                        \cup {Saved(c) : c \in InitSnapshots}
    /\ cache_metadata_file \in {AbsentArtifact(EmptyMeta), CorruptArtifact(EmptyMeta)}
                                 \cup {Saved(m) : m \in InitMetadata}
    /\ embeddings_cache = EmptyCache
    /\ cache_metadata = EmptyMeta
    /\ res = NoRes
    /\ call = NoCall
    /\ peer = NoPeer

\* --------------------------------------------------------------- actions
\* The body of build_cache on the current record files.
RunBuildCache ==
    /\ \E globbed \in Orders(GlobStems(embeddings_dir)) :
          embeddings_cache' = BuildCacheEntries(embeddings_dir, globbed)
    /\ cache_file' = SaveCache(embeddings_cache')
    /\ cache_metadata' = BuiltMeta(embeddings_cache')
    /\ cache_metadata_file' = SaveCacheMetadata(cache_metadata')
    /\ UNCHANGED embeddings_dir

\* DocumentManager(): load_or_build_cache. The exception caught is the one of
\* pickle.load, or the one of is_cache_valid on a snapshot that is no dict.
Startup ==
    /\ pc = "off"
    /\ pc' = "ready"
    /\ LET loaded == LoadCache(cache_file)
           valid == HasKeys(cache_file) /\ IsCacheValid(embeddings_dir, loaded)
       IN /\ IF valid
             THEN /\ embeddings_cache' = loaded
                  /\ cache_metadata' = LoadMetadata(cache_metadata_file)
                  /\ UNCHANGED disk
             ELSE RunBuildCache
          /\ res' = [Done("startup") EXCEPT
                       !.valid = valid, !.rebuilt = ~valid,
                       !.caught = CASE cache_file.kind = "corrupt" -> "UnpicklingError"
                                    [] ~HasKeys(cache_file) -> "AttributeError"
                                    [] OTHER -> ""]
    /\ UNCHANGED <<call, peer>>

\* The process ends; the in-memory state is gone.
Exit ==
    /\ pc = "ready"
    /\ pc' = "off"
    /\ embeddings_cache' = EmptyCache
    /\ cache_metadata' = EmptyMeta
    /\ res' = NoRes
    /\ UNCHANGED <<disk, call, peer>>

\* build_cache()
BuildCache ==
    /\ pc = "ready"
    /\ RunBuildCache
    /\ res' = [Done("build_cache") EXCEPT !.rebuilt = TRUE]
    /\ UNCHANGED <<pc, call, peer>>

\* invalidate_cache(): unlink both artifacts, then build_cache
InvalidateCache ==
    /\ pc = "ready"
    /\ RunBuildCache
    /\ res' = [Done("invalidate_cache") EXCEPT !.rebuilt = TRUE]
    /\ UNCHANGED <<pc, call, peer>>

\* Cache menu, option 3 (clear)
MenuClear ==
    /\ pc = "ready"
    /\ embeddings_cache' = EmptyCache
    /\ cache_file' = AbsentArtifact(EmptyCache)
    /\ cache_metadata_file' = AbsentArtifact(EmptyMeta)
    /\ res' = Done("clear")
    /\ UNCHANGED <<pc, embeddings_dir, cache_metadata, call, peer>>

\* Cache menu, option 4 (validate): is_cache_valid, then a message
MenuValidate ==
    /\ pc = "ready"
    /\ res' = [Done("validate") EXCEPT
                 !.valid = IsCacheValid(embeddings_dir, embeddings_cache)]
    /\ UNCHANGED <<pc, disk, memory, call, peer>>

\* Mutant of AddDocumentRejected: the record file is opened for writing before
\* the text is checked and the embedding requested.
AddDocumentRejectedAfterOpen(f) ==
    /\ pc = "ready"
    /\ f.exists
    /\ ExtractTextFromFile(f).raised = ""
    /\ embeddings_dir' = [embeddings_dir EXCEPT ![f.stem] = CorruptFile]
    /\ res' = Failed("add_document", "ValueError", 0)
    /\ UNCHANGED <<pc, cache_file, cache_metadata_file, memory, call, peer>>

\* add_document(file_path) raising before anything is written: the file is
\* missing, extraction raises, the text is empty, or no embedding is obtained.
AddDocumentRejected(f) ==
    LET x == ExtractTextFromFile(f) IN
    /\ pc = "ready"
    /\ \/ /\ ~f.exists
          /\ res' = Failed("add_document", "FileNotFoundError", 0)
       \/ /\ f.exists
          /\ x.raised # ""
          /\ res' = Failed("add_document", x.raised, 0)
       \/ /\ f.exists
          /\ x.raised = ""
          /\ IsEmptyContent(x.text)
          /\ res' = [Failed("add_document", "ValueError", 0) EXCEPT
                        !.extracted = TRUE, !.content = x.text]
       \/ /\ f.exists
          /\ x.raised = ""
          /\ ~IsEmptyContent(x.text)
          /\ \E g \in Outcomes(x.text) :
                /\ g.ret = "raise"
                /\ res' = [Failed("add_document", g.err, g.calls) EXCEPT
                              !.extracted = TRUE, !.content = x.text]
    /\ UNCHANGED <<pc, disk, memory, call, peer>>

\* Mutant of AddDocumentStored: the record file is written and the cache,
\* the snapshot and the metadata are left as they were.
AddDocumentStoredUncached(f) ==
    LET x == ExtractTextFromFile(f) IN
    /\ pc = "ready"
    /\ f.exists
    /\ x.raised = ""
    /\ ~IsEmptyContent(x.text)
    /\ \E g \in Outcomes(x.text) :
          LET doc_info == DocInfo(f.ext, x.text, g.embedding) IN
          /\ g.ret # "raise"
          /\ embeddings_dir' = [embeddings_dir EXCEPT ![f.stem] = doc_info]
          /\ res' = [DoneOn("add_document", f.stem) EXCEPT
                        !.calls = g.calls, !.extracted = TRUE, !.content = x.text,
                        !.doc = doc_info]
    /\ UNCHANGED <<pc, cache_file, cache_metadata_file, memory, call, peer>>

\* Mutant of AddDocumentStored: the cache entry is set and the snapshot saved
\* before the record file is written, so a failing write leaves them changed.
AddDocumentStoredCachingFirst(f) ==
    LET x == ExtractTextFromFile(f) IN
    /\ pc = "ready"
    /\ f.exists
    /\ x.raised = ""
    /\ ~IsEmptyContent(x.text)
    /\ \E g \in Outcomes(x.text), w \in WriteOutcomes :
          LET doc_info == DocInfo(f.ext, x.text, g.embedding)
              doc_id == f.stem
              op == [DoneOn("add_document", doc_id) EXCEPT
                        !.calls = g.calls, !.extracted = TRUE, !.content = x.text]
          IN
          /\ g.ret # "raise"
          /\ embeddings_cache' = DictSet(embeddings_cache, doc_id, doc_info)
          /\ cache_file' = SaveCache(embeddings_cache')
          /\ CASE w = "PermissionError" ->
                    /\ res' = [op EXCEPT !.err = w]
                    /\ UNCHANGED <<embeddings_dir, cache_metadata, cache_metadata_file>>
               [] w = "OSError" ->
                    /\ embeddings_dir' = [embeddings_dir EXCEPT ![doc_id] = CorruptFile]
                    /\ res' = [op EXCEPT !.err = w]
                    /\ UNCHANGED <<cache_metadata, cache_metadata_file>>
               [] w = "ok" ->
                    /\ embeddings_dir' = [embeddings_dir EXCEPT ![doc_id] = doc_info]
                    /\ IF cache_metadata.isdict
                       THEN /\ cache_metadata' = UpdatedMeta(cache_metadata, embeddings_cache')
                            /\ cache_metadata_file' = SaveCacheMetadata(cache_metadata')
                            /\ res' = [op EXCEPT !.doc = doc_info]
                       ELSE /\ res' = [op EXCEPT !.err = "TypeError"]
                            /\ UNCHANGED <<cache_metadata, cache_metadata_file>>
    /\ UNCHANGED <<pc, call, peer>>

\* add_document(file_path) from the point where the embedding is obtained:
\* the record file is written, then the cache, the snapshot and the metadata.
AddDocumentStored(f) ==
    LET x == ExtractTextFromFile(f) IN
    /\ pc = "ready"
    /\ f.exists
    /\ x.raised = ""
    /\ ~IsEmptyContent(x.text)
    /\ \E g \in Outcomes(x.text), w \in WriteOutcomes :
          LET doc_info == DocInfo(f.ext, x.text, g.embedding)
              doc_id == f.stem
              op == [DoneOn("add_document", doc_id) EXCEPT
                        !.calls = g.calls, !.extracted = TRUE, !.content = x.text]
          IN
          /\ g.ret # "raise"
          /\ CASE w = "PermissionError" ->
                    /\ res' = [op EXCEPT !.err = w]
                    /\ UNCHANGED <<disk, memory>>
               [] w = "OSError" ->
                    /\ embeddings_dir' = [embeddings_dir EXCEPT ![doc_id] = CorruptFile]
                    /\ res' = [op EXCEPT !.err = w]
                    /\ UNCHANGED <<cache_file, cache_metadata_file, memory>>
               [] w = "ok" ->
                    /\ embeddings_dir' = [embeddings_dir EXCEPT ![doc_id] = doc_info]
                    /\ embeddings_cache' = DictSet(embeddings_cache, doc_id, doc_info)
                    /\ cache_file' = SaveCache(embeddings_cache')
                    /\ IF cache_metadata.isdict
                       THEN /\ cache_metadata' = UpdatedMeta(cache_metadata, embeddings_cache')
                            /\ cache_metadata_file' = SaveCacheMetadata(cache_metadata')
                            /\ res' = [op EXCEPT !.doc = doc_info]
                       ELSE \* self.cache_metadata["last_updated"] = ... on a non-dict
                            /\ res' = [op EXCEPT !.err = "TypeError"]
                            /\ UNCHANGED <<cache_metadata, cache_metadata_file>>
    /\ UNCHANGED <<pc, call, peer>>

AddDocument(f) == AddDocumentRejected(f) \/ AddDocumentStored(f)

\* Mutant of Lookup: no fallback to the file system; an id the cache does not
\* hold is not found.
LookupCacheOnly(dir, cache, doc_id) ==
    IF Has(cache, doc_id)
    THEN [err |-> "", cache |-> cache]
    ELSE [err |-> "FileNotFoundError", cache |-> cache]

\* The lookup of get_document: the cached record; else FileNotFoundError when
\* no file exists, the parse error when it does not load, and else the record
\* read from the file, which is entered in the cache.
Lookup(dir, cache, doc_id) ==
    IF Has(cache, doc_id)
    THEN [err |-> "", cache |-> cache]
    ELSE IF dir[doc_id].kind = "absent"
    THEN [err |-> "FileNotFoundError", cache |-> cache]
    ELSE IF ~Loads(dir[doc_id])
    THEN [err |-> "JSONDecodeError", cache |-> cache]
    ELSE [err |-> "", cache |-> DictSet(cache, doc_id, dir[doc_id])]

\* get_document(doc_id)
GetDocument(doc_id) ==
    LET got == Lookup(embeddings_dir, embeddings_cache, doc_id) IN
    /\ pc = "ready"
    /\ embeddings_cache' = got.cache
    /\ res' = [DoneOn("get_document", doc_id) EXCEPT !.err = got.err]
    /\ UNCHANGED <<pc, disk, cache_metadata, call, peer>>

\* find_similar_documents(query_doc_id, threshold): the query document is
\* fetched with get_document, whose exception is caught and reported with an
\* empty list; a query document without embedding gives an empty list too;
\* else the cache is scanned and the entries found are sorted.
FindSimilarDocuments(query_doc_id, threshold) ==
    LET got == Lookup(embeddings_dir, embeddings_cache, query_doc_id)
        query_embedding ==
            IF got.err # "" THEN <<>> ELSE Get(got.cache, query_doc_id).embedding
        similar_docs ==
            IF query_embedding = <<>>
            THEN <<>>
            ELSE SortBySimilarity(
                     SimilarDocs(got.cache, query_doc_id, query_embedding, threshold))
    IN
    /\ pc = "ready"
    /\ embeddings_cache' = got.cache
    /\ res' = [DoneOn("find_similar_documents", query_doc_id) EXCEPT
                 !.caught = got.err, !.threshold = threshold,
                 !.query = query_embedding, !.out = similar_docs]
    /\ UNCHANGED <<pc, disk, cache_metadata, call, peer>>

\* search_by_query(query_text, threshold): the query embedding is requested
\* first; an exception of generate_embedding is caught and reported with an
\* empty list; else the cache is scanned and the entries found are sorted.
SearchByQuery(query_text, threshold) ==
    /\ pc = "ready"
    /\ \E g \in Outcomes(query_text) :
          LET scan ==
                  IF g.ret = "raise"
                  THEN [raised |-> "", caught |-> g.err, out |-> <<>>]
                  ELSE SearchScan(embeddings_cache, g.embedding, threshold)
          IN res' = [Done("search_by_query") EXCEPT
                       !.err = scan.raised, !.caught = scan.caught,
                       !.calls = g.calls, !.threshold = threshold,
                       !.query = g.embedding, !.out = scan.out]
    /\ UNCHANGED <<pc, disk, memory, call, peer>>

\* cosine_similarity(embedding1, embedding2) called on a constructed manager
CosineSimilarityCall(embedding1, embedding2) ==
    LET c == CosineSimilarity(embedding1, embedding2) IN
    /\ pc = "ready"
    /\ res' = [Done("cosine_similarity") EXCEPT
                 !.query = embedding1, !.other = embedding2,
                 !.err = c.raised, !.similarity = c.value]
    /\ UNCHANGED <<pc, disk, memory, call, peer>>

\* check_embedding_dimensions()
CheckEmbeddingDimensions ==
    /\ pc = "ready"
    /\ res' = [Done("check_embedding_dimensions") EXCEPT
                 !.consistent = DimensionsConsistent(embeddings_cache)]
    /\ UNCHANGED <<pc, disk, memory, call, peer>>

\* list_documents()
ListDocuments ==
    /\ pc = "ready"
    /\ res' = Done("list_documents")
    /\ UNCHANGED <<pc, disk, memory, call, peer>>

Next ==
    \/ Startup
    \/ Exit
    \/ BuildCache
    \/ InvalidateCache
    \/ MenuClear
    \/ MenuValidate
    \/ \E f \in SourceFiles : AddDocument(f)
    \/ \E doc_id \in Ids : GetDocument(doc_id)
    \/ \E doc_id \in Ids : FindSimilarDocuments(doc_id, DefaultThreshold)
    \/ \E query_text \in {TextX, TextY} : SearchByQuery(query_text, DefaultThreshold)
    \/ CheckEmbeddingDimensions
    \/ ListDocuments

\* The manager and the cache menu on any storage directory.
Spec == Init /\ [][Next]_vars

\* The methods of DocumentManager alone, without the cache menu.
NextManager ==
    \/ Startup
    \/ Exit
    \/ BuildCache
    \/ InvalidateCache
    \/ \E f \in SourceFiles : AddDocument(f)
    \/ \E doc_id \in Ids : GetDocument(doc_id)
    \/ \E doc_id \in Ids : FindSimilarDocuments(doc_id, DefaultThreshold)
    \/ \E query_text \in {TextX, TextY} : SearchByQuery(query_text, DefaultThreshold)
    \/ CheckEmbeddingDimensions
    \/ ListDocuments

SpecManager == Init /\ [][NextManager]_vars

\* ------------------------------------- two managers on one directory
\* The other manager process runs from here on: the in-memory state of this
\* one is set aside and that of the other one taken up. The files are shared.
SwitchInstance ==
    /\ pc' = peer.pc
    /\ embeddings_cache' = peer.embeddings_cache
    /\ cache_metadata' = peer.cache_metadata
    /\ peer' = [pc |-> pc, embeddings_cache |-> embeddings_cache,
                cache_metadata |-> cache_metadata]
    /\ UNCHANGED <<disk, res, call>>

\* The files the two managers ingest.
SharedFiles ==
    {SourceFile(i, ".txt", TRUE, "ok", TextX) : i \in Ids}

\* Two processes started on an empty storage directory, each constructing a
\* manager, ingesting and using the cache menu's clear; neither exits.
InitShared ==
    /\ pc = "off"
    /\ embeddings_dir = [i \in Ids |-> AbsentFile]
    /\ cache_file = AbsentArtifact(EmptyCache)
    /\ cache_metadata_file = AbsentArtifact(EmptyMeta)
    /\ embeddings_cache = EmptyCache
    /\ cache_metadata = EmptyMeta
    /\ res = NoRes
    /\ call = NoCall
    /\ peer = NoPeer

NextShared ==
    \/ Startup
    \/ \E f \in SharedFiles : AddDocument(f)
    \/ MenuClear
    \/ SwitchInstance

SpecShared == InitShared /\ [][NextShared]_vars

\* ------------------------- two runs that differ in cache_metadata.json alone
\* The run at hand as one value: its files, its memory and the result of its
\* last call.
ThisRun ==
    [pc |-> pc, embeddings_dir |-> embeddings_dir, cache_file |-> cache_file,
     cache_metadata_file |-> cache_metadata_file,
     embeddings_cache |-> embeddings_cache, cache_metadata |-> cache_metadata,
     res |-> res]

\* What cache_metadata.json can hold when a run starts: nothing, text that
\* json.load rejects, or a JSON value (an object or something else).
MetadataContents ==
    {AbsentArtifact(EmptyMeta), CorruptArtifact(EmptyMeta)}
        \cup {Saved(m) : m \in InitMetadata}

\* Two runs on the same record files and the same snapshot; the other run,
\* set aside in peer, finds another cache_metadata.json.
InitAdvisory ==
    /\ pc = "off"
    /\ embeddings_dir \in [Ids -> {AbsentFile, DocInfo(".txt", TextX, Embedding(TextX))}]
    /\ cache_file \in {AbsentArtifact(EmptyCache)} \cup {Saved(c) : c \in InitSnapshots}
    /\ cache_metadata_file \in MetadataContents
    /\ embeddings_cache = EmptyCache
    /\ cache_metadata = EmptyMeta
    /\ res = NoRes
    /\ call = NoCall
    /\ \E other \in MetadataContents \ {cache_metadata_file} :
          peer = [ThisRun EXCEPT !.cache_metadata_file = other]

\* The exceptions that come from outside the manager: from the provider and
\* from writing the record file.
OutsideErrors == Transient \cup NonTransient \cup (WriteOutcomes \ {"ok"})

\* The provider answered the first call and the record file was written.
Undisturbed(r) ==
    /\ r.calls <= 1
    /\ {r.err, r.caught} \cap OutsideErrors = {}

\* Two calls of the same operation with the same argument.
SameCall(r1, r2) ==
    /\ r1.op = r2.op
    /\ r1.stem = r2.stem
    /\ r1.threshold = r2.threshold

\* The ids of a cache in its order, which after build_cache is the order in
\* which glob listed the files.
IdsInOrder(cache) == [n \in 1..Len(cache) |-> cache[n].id]

\* One call in one of the two runs. The first run makes any call; the other
\* run then makes the same call. Outside the manager the two runs are alike:
\* the provider answers, the record file is written, and glob lists the
\* files in the same order.
InBothRuns(A) ==
    /\ res = NoRes
    /\ A
    /\ Undisturbed(res')
    /\ peer.res # NoRes =>
          /\ SameCall(res', peer.res)
          /\ (res'.rebuilt /\ peer.res.rebuilt) =>
                IdsInOrder(embeddings_cache') = IdsInOrder(peer.embeddings_cache)

\* The first run has made its call: the runs change places and the other
\* run makes it.
SwitchRun ==
    /\ res # NoRes
    /\ peer.res = NoRes
    /\ pc' = peer.pc
    /\ embeddings_dir' = peer.embeddings_dir
    /\ cache_file' = peer.cache_file
    /\ cache_metadata_file' = peer.cache_metadata_file
    /\ embeddings_cache' = peer.embeddings_cache
    /\ cache_metadata' = peer.cache_metadata
    /\ res' = peer.res
    /\ peer' = ThisRun
    /\ UNCHANGED call

\* Both runs have made the call with the same outcome; each goes on to its
\* next call.
NextCall ==
    /\ res # NoRes
    /\ peer.res = res
    /\ res' = NoRes
    /\ peer' = [peer EXCEPT !.res = NoRes]
    /\ UNCHANGED <<pc, disk, memory, call>>

NextAdvisory ==
    \/ InBothRuns(Startup)
    \/ \E f \in SharedFiles : InBothRuns(AddDocumentStored(f))
    \/ \E doc_id \in Ids : InBothRuns(GetDocument(doc_id))
    \/ \E doc_id \in Ids : InBothRuns(FindSimilarDocuments(doc_id, DefaultThreshold))
    \/ InBothRuns(SearchByQuery(TextX, DefaultThreshold))
    \/ SwitchRun
    \/ NextCall

SpecAdvisory == InitAdvisory /\ [][NextAdvisory]_vars

\* ------------------------------- add_document statement by statement, crashes
\* The positions inside add_document after the embedding is obtained: the
\* record file is written (main.py:405-413), the cache entry is set (418),
\* the snapshot is saved (419).
InAddDocument == {"written", "inserted", "saved"}

\* The process ending while the record file is being written.
CrashErrors == {"crash"}

\* add_document(file_path) up to the write of embeddings/<id>.json. The write
\* raises as in AddDocumentStored, or the process ends during it and leaves
\* a truncated file.
AddDocumentWrite(f) ==
    LET x == ExtractTextFromFile(f) IN
    /\ pc = "ready"
    /\ f.exists
    /\ x.raised = ""
    /\ ~IsEmptyContent(x.text)
    /\ \E g \in Outcomes(x.text), w \in WriteOutcomes \cup CrashErrors :
          LET doc_info == DocInfo(f.ext, x.text, g.embedding)
              doc_id == f.stem
              op == [DoneOn("add_document", doc_id) EXCEPT
                        !.calls = g.calls, !.extracted = TRUE, !.content = x.text]
          IN
          /\ g.ret # "raise"
          /\ CASE w = "PermissionError" ->
                    /\ res' = [op EXCEPT !.err = w]
                    /\ UNCHANGED <<pc, embeddings_dir, memory>>
               [] w = "OSError" ->
                    /\ embeddings_dir' = [embeddings_dir EXCEPT ![doc_id] = CorruptFile]
                    /\ res' = [op EXCEPT !.err = w]
                    /\ UNCHANGED <<pc, memory>>
               [] w = "crash" ->
                    /\ embeddings_dir' = [embeddings_dir EXCEPT ![doc_id] = CorruptFile]
                    /\ pc' = "off"
                    /\ embeddings_cache' = EmptyCache
                    /\ cache_metadata' = EmptyMeta
                    /\ res' = DoneOn("crash_writing", doc_id)
               [] w = "ok" ->
                    /\ embeddings_dir' = [embeddings_dir EXCEPT ![doc_id] = doc_info]
                    /\ pc' = "written"
                    /\ res' = [op EXCEPT !.doc = doc_info]
                    /\ UNCHANGED memory
    /\ UNCHANGED <<cache_file, cache_metadata_file, call, peer>>

\* self.embeddings_cache[doc_id] = doc_info
AddDocumentInsert ==
    /\ pc = "written"
    /\ pc' = "inserted"
    /\ embeddings_cache' = DictSet(embeddings_cache, res.stem, res.doc)
    /\ UNCHANGED <<disk, cache_metadata, res, call, peer>>

\* self.save_cache(), or the process ending while the snapshot is written
AddDocumentSaveCache ==
    /\ pc = "inserted"
    /\ \/ /\ pc' = "saved"
          /\ cache_file' = SaveCache(embeddings_cache)
          /\ UNCHANGED <<memory, res>>
       \/ /\ pc' = "off"
          /\ cache_file' = CorruptArtifact(EmptyCache)
          /\ embeddings_cache' = EmptyCache
          /\ cache_metadata' = EmptyMeta
          /\ res' = DoneOn("crash_writing", res.stem)
    /\ UNCHANGED <<embeddings_dir, cache_metadata_file, call, peer>>

\* The metadata update and save_cache_metadata(), then return doc_id; or the
\* process ending while the metadata file is written.
AddDocumentSaveMetadata ==
    /\ pc = "saved"
    /\ IF cache_metadata.isdict
       THEN \/ /\ pc' = "ready"
               /\ cache_metadata' = UpdatedMeta(cache_metadata, embeddings_cache)
               /\ cache_metadata_file' = SaveCacheMetadata(cache_metadata')
               /\ UNCHANGED <<embeddings_cache, res>>
            \/ /\ pc' = "off"
               /\ cache_metadata_file' = CorruptArtifact(EmptyMeta)
               /\ embeddings_cache' = EmptyCache
               /\ cache_metadata' = EmptyMeta
               /\ res' = DoneOn("crash_writing", res.stem)
       ELSE /\ pc' = "ready"
            /\ res' = [res EXCEPT !.err = "TypeError", !.doc = AbsentFile]
            /\ UNCHANGED <<memory, cache_metadata_file>>
    /\ UNCHANGED <<embeddings_dir, cache_file, call, peer>>

\* The process ends between two statements; the files stay as they are.
Crash ==
    /\ pc \in {"ready"} \cup InAddDocument
    /\ pc' = "off"
    /\ embeddings_cache' = EmptyCache
    /\ cache_metadata' = EmptyMeta
    /\ res' = DoneOn("crash", IF pc = "ready" THEN "" ELSE res.stem)
    /\ UNCHANGED <<disk, call, peer>>

\* Any record files and any snapshot left by earlier runs.
InitCrash ==
    /\ pc = "off"
    /\ embeddings_dir \in
          [Ids -> {AbsentFile, CorruptFile, DocInfo(".pdf", TextY, Embedding(TextY))}]
    /\ cache_file \in {AbsentArtifact(EmptyCache)} \cup {Saved(c) : c \in InitSnapshots}
    /\ cache_metadata_file \in {AbsentArtifact(EmptyMeta), Saved(NonDictMeta)}
    /\ embeddings_cache = EmptyCache
    /\ cache_metadata = EmptyMeta
    /\ res = NoRes
    /\ call = NoCall
    /\ peer = NoPeer

NextCrash ==
    \/ Startup
    \/ \E f \in SharedFiles : AddDocumentWrite(f)
    \/ AddDocumentInsert
    \/ AddDocumentSaveCache
    \/ AddDocumentSaveMetadata
    \/ Crash

SpecCrash == InitCrash /\ [][NextCrash]_vars

\* ------------------------------------------------ one startup after another
\* The manager is constructed, the process ends, and the next process
\* constructs it again on the files as they are.
NextRestart ==
    \/ Startup
    \/ Crash

SpecRestart == Init /\ [][NextRestart]_vars

\* ------------------------- the operations that change the cache entries
\* One manager on any directory: construction, the two rebuilds, ingestion
\* and lookup, and the cache menu's clear, after which record files are not
\* cached.
NextPersist ==
    \/ Startup
    \/ BuildCache
    \/ InvalidateCache
    \/ MenuClear
    \/ \E f \in SharedFiles : AddDocument(f)
    \/ \E doc_id \in Ids : GetDocument(doc_id)

SpecPersist == InitCrash /\ [][NextPersist]_vars

\* ------------------------------------------------- the retry loop alone
\* generate_embedding(text, max_retries) called on a constructed manager,
\* the provider answering its calls as `script` says.
GenerateEmbeddingCall(text, max_retries, script) ==
    /\ pc = "ready"
    /\ call' = [op |-> "generate_embedding", max_retries |-> max_retries,
                script |-> script, out |-> GenerateEmbedding(script, max_retries)]
    /\ UNCHANGED <<pc, disk, memory, res, peer>>

\* ChatBot(doc_manager).chat(user_input, max_retries), its searches and the
\* completion provider answering as `script` says.
ChatCall(max_retries, script) ==
    /\ pc = "ready"
    /\ call' = [op |-> "chat", max_retries |-> max_retries,
                script |-> script, out |-> Chat(script, max_retries)]
    /\ UNCHANGED <<pc, disk, memory, res, peer>>

\* A manager constructed on an empty storage directory.
InitRetry ==
    /\ pc = "ready"
    /\ embeddings_dir = [i \in Ids |-> AbsentFile]
    /\ embeddings_cache = EmptyCache
    /\ cache_file = SaveCache(EmptyCache)
    /\ cache_metadata = BuiltMeta(EmptyCache)
    /\ cache_metadata_file = SaveCacheMetadata(BuiltMeta(EmptyCache))
    /\ res = [Done("startup") EXCEPT !.rebuilt = TRUE]
    /\ call = NoCall
    /\ peer = NoPeer

NextRetry ==
    \E text \in {TextX, TextY}, max_retries \in 0..MaxRetriesArg :
        \E script \in Scripts(text, max_retries) :
            GenerateEmbeddingCall(text, max_retries, script)

SpecRetry == InitRetry /\ [][NextRetry]_vars

\* ------------------------------------------------ the two retry loops
\* One call of generate_embedding or of chat on a fresh manager: a call
\* changes nothing a later call reads, so each run makes one.
NextBackoff ==
    /\ call = NoCall
    /\ \/ \E max_retries \in 0..MaxBackoffRetries :
             \E script \in Scripts(TextX, max_retries) :
                 GenerateEmbeddingCall(TextX, max_retries, script)
       \/ \E max_retries \in 0..MaxBackoffRetries :
             \E script \in ChatScripts(max_retries) :
                 ChatCall(max_retries, script)

SpecBackoff == InitRetry /\ [][NextBackoff]_vars

\* ---------------------------------------------------- retrieval on a cache
\* The ids, records and thresholds of the retrieval runs. The records differ
\* in their embedding: unit vectors, <<3, 4>> (similarity 3/5 and 4/5 to the
\* unit vectors), its opposite, a vector of another length, one whose
\* components are no numbers, and none at all.
RetrievalIds == {"a", "b", "c"}
Stored(embedding) == DocInfo(".txt", TextX, embedding)
RetrievalDocs(i) ==
    CASE i = "a" -> {Stored(<<1, 0>>), Stored(<<3, 4>>), Stored(<<>>)}
      [] i = "b" -> {Stored(<<0, 1>>), Stored(<<3, 4>>), Stored(<<-3, -4>>)}
      [] OTHER -> {Stored(<<1, 0>>), Stored(<<1>>), Stored(<<NotANumber, NotANumber>>)}
RetrievalCaches ==
    UNION {UNION {{[n \in DOMAIN o |-> Item(o[n], d[o[n]])] : o \in Orders(S)}
                  : d \in {f \in [S -> UNION {RetrievalDocs(i) : i \in S}] :
                              \A i \in S : f[i] \in RetrievalDocs(i)}}
           : S \in SUBSET RetrievalIds}
RetrievalThresholds == {Zero, Rat(3, 5), DefaultThreshold}

\* A constructed manager whose cache holds some of the records, each with
\* its file; the file of c may exist, parseable or not, without c being
\* cached.
InitRetrieval ==
    /\ pc = "ready"
    /\ embeddings_cache \in RetrievalCaches
    /\ \E uncached \in {AbsentFile, CorruptFile, Stored(<<3, 4>>)} :
          embeddings_dir =
              [i \in RetrievalIds |->
                  IF Has(embeddings_cache, i) THEN Get(embeddings_cache, i)
                  ELSE IF i = "c" THEN uncached
                  ELSE AbsentFile]
    /\ cache_file = SaveCache(embeddings_cache)
    /\ cache_metadata = BuiltMeta(embeddings_cache)
    /\ cache_metadata_file = SaveCacheMetadata(cache_metadata)
    /\ res = Done("startup")
    /\ call = NoCall
    /\ peer = NoPeer

NextRetrieval ==
    \/ \E doc_id \in RetrievalIds, threshold \in RetrievalThresholds :
          FindSimilarDocuments(doc_id, threshold)
    \/ \E query_text \in {TextX, TextZ}, threshold \in RetrievalThresholds :
          SearchByQuery(query_text, threshold)

SpecRetrieval == InitRetrieval /\ [][NextRetrieval]_vars

\* ------------------------------------------------- search_by_query alone
\* The empty query text; the provider answers it like any other text or
\* rejects it.
EmptyText == <<>>
\* Thresholds below 0, inside [0, 1], above 1, and no number at all.
SearchThresholds ==
    {Rat(-1, 10), Zero, DefaultThreshold, Rat(3, 2), NotAThreshold}

\* One search on each cache (a search leaves the cache as it is).
NextSearch ==
    /\ res.op = "startup"
    /\ \E query_text \in {TextX, TextZ, EmptyText}, threshold \in SearchThresholds :
          SearchByQuery(query_text, threshold)

SpecSearch == InitRetrieval /\ [][NextSearch]_vars

\* ------------------------------------------ the dimension check alone
\* check_embedding_dimensions() on the caches of the retrieval runs.
NextDimensions == CheckEmbeddingDimensions

SpecDimensions == InitRetrieval /\ [][NextDimensions]_vars

\* ------------------------------------------------- the preview of a result
\* How far the content lengths tried reach on either side of PreviewLength.
PreviewMargin == 3
ContentLengths ==
    {0, 1} \cup ((PreviewLength - PreviewMargin)..(PreviewLength + PreviewMargin))
LongText(n) == [k \in 1..n |-> "c"]

\* A constructed manager whose cache holds one record, of any of the lengths.
InitPreview ==
    /\ pc = "ready"
    /\ \E n \in ContentLengths :
          embeddings_cache = <<Item("a", DocInfo(".txt", LongText(n), Embedding(TextX)))>>
    /\ embeddings_dir = [i \in Ids |-> IF i = "a" THEN Get(embeddings_cache, i) ELSE AbsentFile]
    /\ cache_file = SaveCache(embeddings_cache)
    /\ cache_metadata = BuiltMeta(embeddings_cache)
    /\ cache_metadata_file = SaveCacheMetadata(cache_metadata)
    /\ res = Done("startup")
    /\ call = NoCall
    /\ peer = NoPeer

NextPreview ==
    \E query_text \in {TextX, TextY}, threshold \in {Zero, DefaultThreshold} :
        SearchByQuery(query_text, threshold)

SpecPreview == InitPreview /\ [][NextPreview]_vars

\* ------------------------------------------------ cosine_similarity alone
\* The arguments tried: vectors of length 0 to 3, zero vectors, and vectors
\* with components that are no numbers.
CosineVectors ==
    {<<>>, <<1>>, <<0, 0>>, <<1, 0>>, <<0, 1>>, <<3, 4>>, <<-3, -4>>,
     <<NotANumber, NotANumber>>, <<1, NotANumber>>, <<0, 0, 0>>, <<2, 1, 2>>}

NextCosine ==
    \E embedding1, embedding2 \in CosineVectors :
        CosineSimilarityCall(embedding1, embedding2)

SpecCosine == InitRetry /\ [][NextCosine]_vars

\* ------------------------------------------------------- ingestion alone
\* add_document on a manager constructed on an empty storage directory: every
\* record file and every cache entry comes from an ingestion.
NextIngest == \E f \in SourceFiles : AddDocument(f)

SpecIngest == InitRetry /\ [][NextIngest]_vars

\* ------------------------------------------- chat with its searches
\* relevant_docs = self.doc_manager.search_by_query(user_input, threshold=0.3)
ChatThreshold == Rat(3, 10)

\* What search_by_query(query_text, threshold) returns when its
\* generate_embedding call ends as g: [] when it raised, else the scan's list.
SearchByQueryReturn(cache, g, threshold) ==
    IF g.ret = "raise" THEN <<>> ELSE SearchScan(cache, g.embedding, threshold).out

\* One pass of the loop of chat: how the generate_embedding call of its
\* search ends and what client.chat.completions.create then answers. The
\* embedding provider of these passes fails by rate limit only.
ChatRound(g, kind) == [g |-> g, kind |-> kind]
ChatRounds(text) ==
    {ChatRound(g, k) : g \in {o \in Outcomes(text) : o.ret = "raise" => o.err = "RateLimitError"},
                       k \in {"ok"} \cup Transient \cup NonTransient}
ChatRoundScripts(text, n) == [1..n -> ChatRounds(text)]

\* What chat returned, the provider calls of each search_by_query call it
\* made (in order), its completion calls and its own waits.
ChatSearched(reply, requests, calls, waits) ==
    [reply |-> reply, requests |-> requests, calls |-> calls, waits |-> waits]

\* Mutant of ChatSearching: the search is made once, before the loop, and
\* every attempt uses its result.
RECURSIVE ChatSearchingOnce(_, _, _, _, _, _)
ChatSearchingOnce(cache, script, max_retries, attempt, requests, waits) ==
    IF attempt >= max_retries
    THEN ChatSearched("None", requests, attempt, waits)
    ELSE LET r == script[attempt + 1]
             relevant_docs == SearchByQueryReturn(cache, script[1].g, ChatThreshold)
             asked == <<script[1].g.calls>>
         IN
         IF relevant_docs = <<>>
         THEN ChatSearched("no information", asked, attempt, waits)
         ELSE IF r.kind = "ok"
         THEN ChatSearched("answer", asked, attempt + 1, waits)
         ELSE IF r.kind \in Transient /\ attempt < max_retries - 1
         THEN ChatSearchingOnce(cache, script, max_retries, attempt + 1, asked,
                                Append(waits, ChatWaitTime(r.kind, attempt)))
         ELSE ChatSearched(ChatSorry(r.kind), asked, attempt + 1, waits)

\* for attempt in range(max_retries) of chat from `attempt` on, the search of
\* each pass made on `cache`.
RECURSIVE ChatSearching(_, _, _, _, _, _)
ChatSearching(cache, script, max_retries, attempt, requests, waits) ==
    IF attempt >= max_retries
    THEN ChatSearched("None", requests, attempt, waits)
    ELSE LET r == script[attempt + 1]
             relevant_docs == SearchByQueryReturn(cache, r.g, ChatThreshold)
             asked == Append(requests, r.g.calls)
         IN
         IF relevant_docs = <<>>
         THEN ChatSearched("no information", asked, attempt, waits)
         ELSE IF r.kind = "ok"
         THEN ChatSearched("answer", asked, attempt + 1, waits)
         ELSE IF r.kind \in Transient /\ attempt < max_retries - 1
         THEN ChatSearching(cache, script, max_retries, attempt + 1, asked,
                            Append(waits, ChatWaitTime(r.kind, attempt)))
         ELSE ChatSearched(ChatSorry(r.kind), asked, attempt + 1, waits)

\* ChatBot(doc_manager).chat(user_input, max_retries) on a constructed
\* manager, the two providers answering as `script` says.
ChatOnCache(max_retries, script) ==
    /\ pc = "ready"
    /\ call' = [op |-> "chat", max_retries |-> max_retries, script |-> script,
                out |-> ChatSearching(embeddings_cache, script, max_retries, 0, <<>>, <<>>)]
    /\ UNCHANGED <<pc, disk, memory, res, peer>>

\* One chat call on a manager whose cache is empty or holds one record, b or
\* c, and whose storage directory holds the file of that record alone.
InitChat ==
    /\ InitRetrieval
    /\ Len(embeddings_cache) <= 1
    /\ GlobStems(embeddings_dir) = Keys(embeddings_cache)
    /\ ~Has(embeddings_cache, "a")

NextChat ==
    /\ call = NoCall
    /\ \E max_retries \in 0..MaxChatRetries :
          \E script \in ChatRoundScripts(TextX, max_retries) :
              ChatOnCache(max_retries, script)

SpecChat == InitChat /\ [][NextChat]_vars

\* ------------------------------------- retrieval at thresholds up to 0
\* Thresholds -1, -0.1 and 0, and the default for comparison.
LowThresholds == {Rat(-1, 1), Rat(-1, 10), Zero, DefaultThreshold}

\* One retrieval on each cache.
NextLowThreshold ==
    /\ res.op = "startup"
    /\ \/ \E doc_id \in RetrievalIds, threshold \in LowThresholds :
             FindSimilarDocuments(doc_id, threshold)
       \/ \E query_text \in {TextX, TextY}, threshold \in LowThresholds :
             SearchByQuery(query_text, threshold)

SpecLowThreshold == InitRetrieval /\ [][NextLowThreshold]_vars

\* ================================================================ claims
\* list_documents(): the set of ids it lists.
ListedIds(cache) == {cache[n].id : n \in 1..Len(cache)}

CorruptStems(dir) == {i \in DOMAIN dir : dir[i].kind = "corrupt"}

\* C1: after add_document(r) returns, the cache maps r's id to r, the scan of
\* find_similar_documents/search_by_query visits that entry, and
\* is_cache_valid() is true.
C1_AddLeavesCacheValid ==
    (res.op = "add_document" /\ res.err = "") =>
        /\ Has(embeddings_cache, res.stem)
        /\ Get(embeddings_cache, res.stem) = res.doc
        /\ \E n \in 1..Len(embeddings_cache) : embeddings_cache[n] = Item(res.stem, res.doc)
        /\ IsCacheValid(embeddings_dir, embeddings_cache)

\* C2: after build_cache() completes, is_cache_valid() is true, whatever mix
\* of parseable and corrupt record files the directory holds.
C2_RebuildLeavesCacheValid ==
    res.rebuilt => IsCacheValid(embeddings_dir, embeddings_cache)

\* C3: once a manager is constructed, after any sequence of its operations the
\* ids of the cache entries are the ids of the records in the store.
C3_CacheIdsAreStoreIds ==
    pc = "ready" => Keys(embeddings_cache) = ParseableStems(embeddings_dir)

\* C4: after construction, for every prior snapshot and every store content,
\* the ids of the cache are the ids of the records readable from the store.
C4_StartupSelfHeals ==
    res.op = "startup" => Keys(embeddings_cache) = ParseableStems(embeddings_dir)

\* C5: after build_cache the cache holds exactly the parseable records, the
\* id of a corrupt file is neither cached nor listed, and total_documents is
\* the number of parseable records.
C5_RebuildSkipsCorruptFiles ==
    res.rebuilt =>
        /\ Keys(embeddings_cache) = ParseableStems(embeddings_dir)
        /\ Len(embeddings_cache) = Cardinality(ParseableStems(embeddings_dir))
        /\ \A i \in ParseableStems(embeddings_dir) :
              Get(embeddings_cache, i) = embeddings_dir[i]
        /\ CorruptStems(embeddings_dir) \cap Keys(embeddings_cache) = {}
        /\ CorruptStems(embeddings_dir) \cap ListedIds(embeddings_cache) = {}
        /\ cache_metadata.total_documents = Cardinality(ParseableStems(embeddings_dir))
        /\ cache_file = Saved(embeddings_cache)

C5_Witness ==
    /\ res.rebuilt
    /\ CorruptStems(embeddings_dir) # {}
    /\ embeddings_cache # EmptyCache

\* C6: startup accepts, without a rebuild, a snapshot whose ids are the stems
\* on disk, whatever its records hold; and a step that changes neither the
\* stems nor the cache keys does not change what is_cache_valid answers.
C6_ValidityIgnoresContent ==
    [][ /\ (/\ pc = "off" /\ pc' = "ready"
            /\ cache_file.kind = "saved"
            /\ Keys(cache_file.val) = GlobStems(embeddings_dir))
           => (/\ ~res'.rebuilt
               /\ embeddings_cache' = cache_file.val
               /\ UNCHANGED disk)
        /\ (/\ GlobStems(embeddings_dir') = GlobStems(embeddings_dir)
            /\ Keys(embeddings_cache') = Keys(embeddings_cache))
           => (IsCacheValid(embeddings_dir', embeddings_cache')
                 = IsCacheValid(embeddings_dir, embeddings_cache)) ]_vars

C6_Witness ==
    /\ res.op = "startup"
    /\ ~res.rebuilt
    /\ \E i \in Keys(embeddings_cache) :
          /\ embeddings_dir[i].kind = "doc"
          /\ Get(embeddings_cache, i) # embeddings_dir[i]

\* C7 as stated: whenever startup, the menu's validate or the menu's clear
\* leaves the cache invalid, a rebuild has followed without being requested.
C7_NoStuckInvalid ==
    (/\ res.op \in {"startup", "validate", "clear"}
     /\ ~IsCacheValid(embeddings_dir, embeddings_cache))
        => res.rebuilt

\* C7 amended: a startup that loads an invalid cache rebuilds it before the
\* manager is ready; the menu's validate and clear never rebuild (validate
\* changes nothing, clear leaves the cache empty and both artifacts absent).
C7_RebuildOnlyAtStartup ==
    [][ /\ (/\ pc = "off" /\ pc' = "ready"
            /\ GlobStems(embeddings_dir) # Keys(LoadCache(cache_file)))
           => (/\ res'.rebuilt
               /\ Keys(embeddings_cache') = ParseableStems(embeddings_dir)
               /\ cache_file' = Saved(embeddings_cache'))
        /\ res'.op = "validate"
           => (/\ ~res'.rebuilt
               /\ res'.valid = (GlobStems(embeddings_dir) = Keys(embeddings_cache))
               /\ UNCHANGED <<disk, memory>>)
        /\ res'.op = "clear"
           => (/\ ~res'.rebuilt
               /\ embeddings_cache' = EmptyCache
               /\ cache_file'.kind = "absent"
               /\ UNCHANGED embeddings_dir) ]_vars

C7_Witness ==
    /\ res.op = "startup"
    /\ res.rebuilt
    /\ embeddings_cache # EmptyCache

\* The exceptions of the first three steps of add_document: the file is
\* missing or unreadable, the text is empty, the embedding request failed.
IngestionErrors ==
    {"FileNotFoundError", "UnicodeDecodeError", "ValueError"} \cup Transient \cup NonTransient

\* C8: an add_document that fails in its first three steps leaves the record
\* files, the cache entries, the snapshot and the metadata as they were.
C8_FailedIngestionWritesNothing ==
    [][ (res'.op = "add_document" /\ res'.err \in IngestionErrors)
            => UNCHANGED <<disk, memory>> ]_vars

C8_Witness ==
    /\ res.op = "add_document"
    /\ res.err \in Transient
    /\ res.calls = DefaultMaxRetries
    /\ embeddings_cache # EmptyCache

\* C9: add_document of a file whose extracted text is empty or whitespace
\* only raises ValueError with no provider call made, no record created and
\* the cache as it was.
C9_BlankTextIsRejectedUnembedded ==
    [][ (/\ res'.op = "add_document"
         /\ res'.extracted
         /\ \A n \in 1..Len(res'.content) : res'.content[n] \in Whitespace)
            => (/\ res'.err = "ValueError"
                /\ res'.calls = 0
                /\ UNCHANGED <<disk, memory>>) ]_vars

C9_Witness ==
    /\ res.op = "add_document"
    /\ res.extracted
    /\ res.content # <<>>
    /\ res.err = "ValueError"
    /\ res.calls = 0
    /\ embeddings_cache # EmptyCache

\* C10: with max_retries = n >= 1 and n rate-limited answers, generate_embedding
\* makes n provider calls and n-1 waits and raises RateLimitError; it never
\* makes more than max_retries calls, and none after the first success.
C10_RateLimitedRetries ==
    LET n == call.max_retries
        s == call.script
        o == call.out
    IN
    /\ (n >= 1 /\ \A k \in 1..n : s[k].kind = "RateLimitError") =>
          /\ o.calls = n
          /\ Len(o.waits) = n - 1
          /\ o.ret = "raise"
          /\ o.err = "RateLimitError"
    /\ o.calls <= n
    /\ Len(o.waits) <= o.calls
    /\ \A k \in 1..n : s[k].kind = "ok" => o.calls <= k
    /\ o.ret = "embedding" =>
          /\ s[o.calls].kind = "ok"
          /\ o.embedding = s[o.calls].embedding

C10_Witness ==
    /\ call.max_retries = DefaultMaxRetries
    /\ \A k \in 1..call.max_retries : call.script[k].kind = "RateLimitError"
    /\ call.out.calls = DefaultMaxRetries
    /\ Len(call.out.waits) = DefaultMaxRetries - 1

\* C11: a non-transient provider failure on attempt k (the attempts before it
\* having failed transiently) is raised by generate_embedding on that attempt:
\* k provider calls were made, the k-1 waits are those before it, and the
\* exception raised is that failure, whatever k and max_retries.
C11_NonTransientPropagates ==
    \A k \in 1..call.max_retries :
        (/\ call.script[k].kind \in NonTransient
         /\ \A j \in 1..(k - 1) : call.script[j].kind \in Transient)
            => /\ call.out.ret = "raise"
               /\ call.out.err = call.script[k].kind
               /\ call.out.calls = k
               /\ Len(call.out.waits) = k - 1

C11_Witness ==
    /\ call.max_retries = DefaultMaxRetries
    /\ call.script[1].kind \in Transient
    /\ call.script[2].kind = "OpenAIError"
    /\ call.out.err = "OpenAIError"
    /\ call.out.calls = 2

\* C12: when the embedding request of add_document or of search_by_query (the
\* call ChatBot.chat makes) fails, the retries exhausted, the operation raises
\* the failure to its caller, typed by its class.
C12_ExhaustedRetriesReachCaller ==
    (/\ res.op \in {"add_document", "search_by_query"}
     /\ \/ res.err \in Transient \cup NonTransient
        \/ res.caught \in Transient \cup NonTransient)
        => /\ res.err \in Transient \cup NonTransient
           /\ res.caught = ""

\* C14: find_similar_documents on an id that is neither cached nor stored
\* raises FileNotFoundError.
C14_AbsentQueryIsNotFound ==
    (/\ res.op = "find_similar_documents"
     /\ ~Has(embeddings_cache, res.stem)
     /\ embeddings_dir[res.stem].kind = "absent")
        => res.err = "FileNotFoundError"

\* The ids of a result list, and the place of an id in the cache.
OutIds(out) == {out[n].id : n \in 1..Len(out)}
Position(cache, i) == CHOOSE n \in 1..Len(cache) : cache[n].id = i

\* C13: find_similar_documents(q, t), q found with an embedding, returns each
\* cached entry other than q that has an embedding and whose similarity to
\* q's embedding is >= t, once, with that similarity, and no other entry.
C13_FindSimilarIsTheFilter ==
    (/\ res.op = "find_similar_documents"
     /\ res.caught = ""
     /\ Get(embeddings_cache, res.stem).embedding # <<>>)
        => LET q == Get(embeddings_cache, res.stem).embedding
               sim(i) == CosineSimilarity(q, Get(embeddings_cache, i).embedding).value
           IN /\ OutIds(res.out) =
                    {i \in Keys(embeddings_cache) \ {res.stem} :
                        /\ Get(embeddings_cache, i).embedding # <<>>
                        /\ RatGeq(sim(i), res.threshold)}
              /\ Len(res.out) = Cardinality(OutIds(res.out))
              /\ \A n \in 1..Len(res.out) : RatEq(res.out[n].similarity, sim(res.out[n].id))

C13_Witness ==
    /\ res.op = "find_similar_documents"
    /\ res.caught = ""
    /\ Len(embeddings_cache) = 3
    /\ Len(res.out) = 1
    /\ RatEq(res.out[1].similarity, res.threshold)
    /\ res.threshold.num > 0

\* C15: search_by_query(text, t) that got its query embedding, from one
\* generate_embedding call, returns each cached entry that has an embedding
\* and whose similarity to the query embedding is >= t, once, with that
\* similarity, and no other entry; no entry is left out for its id.
C15_SearchIsTheFilter ==
    (res.op = "search_by_query" /\ res.caught = "")
        => LET sim(i) == CosineSimilarity(res.query, Get(embeddings_cache, i).embedding).value
           IN /\ res.calls \in 1..DefaultMaxRetries
              /\ res.query \in {Embedding(TextX), Embedding(TextZ)}
              /\ OutIds(res.out) =
                    {i \in Keys(embeddings_cache) :
                        /\ Get(embeddings_cache, i).embedding # <<>>
                        /\ RatGeq(sim(i), res.threshold)}
              /\ Len(res.out) = Cardinality(OutIds(res.out))
              /\ \A n \in 1..Len(res.out) : RatEq(res.out[n].similarity, sim(res.out[n].id))

C15_Witness ==
    /\ res.op = "search_by_query"
    /\ res.caught = ""
    /\ Len(embeddings_cache) = 3
    /\ Len(res.out) = 2
    /\ RatEq(res.out[2].similarity, res.threshold)
    /\ res.threshold.num > 0

\* C16: the result list of find_similar_documents and of search_by_query is
\* in non-increasing order of similarity, and of two entries of equal
\* similarity the one the cache iterates first comes first.
C16_ResultsSortedStably ==
    res.op \in {"find_similar_documents", "search_by_query"} =>
        \A m, n \in 1..Len(res.out) :
            m < n =>
                /\ RatGeq(res.out[m].similarity, res.out[n].similarity)
                /\ RatEq(res.out[m].similarity, res.out[n].similarity)
                      => Position(embeddings_cache, res.out[m].id)
                           < Position(embeddings_cache, res.out[n].id)

C16_Witness ==
    /\ res.op = "search_by_query"
    /\ Len(res.out) = 3
    /\ ~RatGeq(res.out[2].similarity, res.out[1].similarity)
    /\ RatEq(res.out[2].similarity, res.out[3].similarity)
    /\ Position(embeddings_cache, res.out[1].id) = 3

\* A vector all of whose components are 0.
IsZeroVector(v) == v # <<>> /\ \A n \in 1..Len(v) : v[n] = 0

\* C17: in a scan, an entry whose embedding has another length than the
\* query embedding, and every entry when the query embedding is a zero
\* vector, scores 0.0 and is in no result at a threshold > 0; a search with a
\* zero query vector returns the empty list at every threshold > 0.
C17_DegenerateEntriesExcluded ==
    (/\ res.op \in {"find_similar_documents", "search_by_query"}
     /\ res.caught = ""
     /\ res.query # <<>>)
        => /\ \A n \in 1..Len(embeddings_cache) :
                 LET e == embeddings_cache[n].doc.embedding IN
                 (Len(e) # Len(res.query) \/ IsZeroVector(res.query))
                    => /\ CosineSimilarity(res.query, e).value.num = 0
                       /\ res.threshold.num > 0 => embeddings_cache[n].id \notin OutIds(res.out)
           /\ (IsZeroVector(res.query) /\ res.threshold.num > 0) => res.out = <<>>

C17_Witness ==
    /\ res.op = "search_by_query"
    /\ res.caught = ""
    /\ IsZeroVector(res.query)
    /\ res.threshold.num > 0
    /\ res.out = <<>>
    /\ \E n \in 1..Len(embeddings_cache) : Len(embeddings_cache[n].doc.embedding) = 2

\* C18 as stated: the content of every search result is at most 2000
\* characters long, and a stored content of at most 2000 characters is
\* returned unchanged.
C18_PreviewAtMostPreviewLength ==
    res.op = "search_by_query" =>
        \A n \in 1..Len(res.out) :
            LET stored == Get(embeddings_cache, res.out[n].id).content IN
            /\ Len(res.out[n].content) <= PreviewLength
            /\ Len(stored) <= PreviewLength => res.out[n].content = stored

\* C18 amended: a stored content of at most 2000 characters is returned
\* unchanged; a longer one is returned as its first 2000 characters followed
\* by "...", 2003 characters in all.
C18_PreviewIsCutWithEllipsis ==
    res.op = "search_by_query" =>
        \A n \in 1..Len(res.out) :
            LET stored == Get(embeddings_cache, res.out[n].id).content
                content == res.out[n].content
            IN IF Len(stored) <= PreviewLength
               THEN content = stored
               ELSE /\ Len(content) = PreviewLength + Len(Ellipsis)
                    /\ SubSeq(content, 1, PreviewLength) = SubSeq(stored, 1, PreviewLength)
                    /\ SubSeq(content, PreviewLength + 1, Len(content)) = Ellipsis

C18_Witness ==
    /\ res.op = "search_by_query"
    /\ Len(res.out) = 1
    /\ Len(Get(embeddings_cache, res.out[1].id).content) = PreviewLength + 1
    /\ Len(res.out[1].content) = PreviewLength + Len(Ellipsis)

\* C19: cosine_similarity raises nothing; it returns exactly 0.0 for vectors
\* of different lengths, for a zero vector (or an empty one) on either side,
\* and when a component is no number.
C19_CosineNeverRaises ==
    res.op = "cosine_similarity" =>
        /\ res.err = ""
        /\ Len(res.query) # Len(res.other) => res.similarity.num = 0
        /\ (\A n \in 1..Len(res.query) : res.query[n] = 0) => res.similarity.num = 0
        /\ (\A n \in 1..Len(res.other) : res.other[n] = 0) => res.similarity.num = 0
        /\ (\E n \in 1..Len(res.query) : res.query[n] = NotANumber) => res.similarity.num = 0
        /\ (\E n \in 1..Len(res.other) : res.other[n] = NotANumber) => res.similarity.num = 0

C19_Witness ==
    /\ res.op = "cosine_similarity"
    /\ Len(res.query) = Len(res.other)
    /\ \E n \in 1..Len(res.other) : res.other[n] = NotANumber
    /\ res.query[1] = 1
    /\ res.err = ""
    /\ res.similarity.num = 0

\* C20: a startup that finds a snapshot it cannot unpickle, or one that is no
\* dict, completes with the cache holding exactly the parseable record files;
\* build_cache has run, and rewritten the snapshot, whenever the directory
\* holds a record file or the snapshot was no dict.
C20_BadSnapshotIsRebuilt ==
    [][ (/\ pc = "off" /\ pc' = "ready"
         /\ cache_file.kind \in {"corrupt", "notdict"})
            => /\ res'.op = "startup" /\ res'.err = ""
               /\ Keys(embeddings_cache') = ParseableStems(embeddings_dir)
               /\ \A i \in ParseableStems(embeddings_dir) :
                     Get(embeddings_cache', i) = embeddings_dir[i]
               /\ (GlobStems(embeddings_dir) # {} \/ cache_file.kind = "notdict")
                     => /\ res'.rebuilt
                        /\ cache_file' = Saved(embeddings_cache') ]_vars

C20_Witness ==
    /\ res.op = "startup"
    /\ res.caught = "AttributeError"
    /\ res.rebuilt
    /\ embeddings_cache = EmptyCache
    /\ GlobStems(embeddings_dir) = {}
    /\ cache_file = Saved(EmptyCache)

\* C21: invalidate_cache() returns with the snapshot and the metadata file
\* written again and the cache holding exactly the parseable records; the
\* record files being untouched, list_documents() lists the ids it listed
\* before the call.
C21_InvalidateKeepsListedIds ==
    [][ res'.op = "invalidate_cache"
            => /\ cache_file' = Saved(embeddings_cache')
               /\ cache_metadata_file' = Saved(cache_metadata')
               /\ Keys(embeddings_cache') = ParseableStems(embeddings_dir')
               /\ \A i \in ParseableStems(embeddings_dir') :
                     Get(embeddings_cache', i) = embeddings_dir'[i]
               /\ embeddings_dir' = embeddings_dir
                     => ListedIds(embeddings_cache') = ListedIds(embeddings_cache) ]_vars

\* C22: an add_document that succeeds under an id the cache already holds
\* (a.pdf after a.txt) leaves one record file and one cache entry under that
\* id, both the record of this ingestion, and as many entries and record files
\* as before; the snapshot is the cache.
C22_CollisionIsLastWriteWins ==
    [][ (/\ res'.op = "add_document"
         /\ res'.err = ""
         /\ Has(embeddings_cache, res'.stem))
            => /\ embeddings_dir'[res'.stem] = res'.doc
               /\ Get(embeddings_cache', res'.stem) = res'.doc
               /\ Cardinality({n \in 1..Len(embeddings_cache') :
                                  embeddings_cache'[n].id = res'.stem}) = 1
               /\ Len(embeddings_cache') = Len(embeddings_cache)
               /\ GlobStems(embeddings_dir') = GlobStems(embeddings_dir)
               /\ \A i \in Keys(embeddings_cache) \ {res'.stem} :
                     Get(embeddings_cache', i) = Get(embeddings_cache, i)
               /\ cache_file' = Saved(embeddings_cache') ]_vars

\* The id a was ingested, then b, then a again as a.pdf.
C22_Witness ==
    /\ res.op = "add_document"
    /\ res.err = ""
    /\ res.stem = "a"
    /\ res.doc.file_type = ".pdf"
    /\ Len(embeddings_cache) = 2
    /\ embeddings_cache[1] = Item("a", res.doc)
    /\ embeddings_dir["a"] = res.doc

\* What find_similar_documents(q, t) returns when it reads nothing but the
\* cache: nothing for an id the cache does not hold or holds without
\* embedding, else the scan of the cache, sorted.
FromCacheAlone(cache, q, t) ==
    IF ~Has(cache, q) \/ Get(cache, q).embedding = <<>>
    THEN <<>>
    ELSE SortBySimilarity(SimilarDocs(cache, q, Get(cache, q).embedding, t))

\* C23 as stated: find_similar_documents and search_by_query leave the cache
\* entries and the files unchanged, their result is determined by the cache
\* entries (and the query embedding), and they fail to parse no record file,
\* reading none.
C23_RetrievalReadsOnlyCache ==
    [][ (res'.op \in {"find_similar_documents", "search_by_query"})
            => /\ UNCHANGED <<disk, embeddings_cache>>
               /\ res'.caught # "JSONDecodeError"
               /\ res'.op = "find_similar_documents"
                     => res'.out = FromCacheAlone(embeddings_cache, res'.stem, res'.threshold)
               /\ (res'.op = "search_by_query" /\ res'.caught = "")
                     => res'.out = SortBySimilarity(
                            MatchingDocs(embeddings_cache, res'.query, res'.threshold)) ]_vars

\* C23 amended: search_by_query is as stated. find_similar_documents is as
\* stated when the cache holds the query id. When it does not, it looks for
\* the record file of the query id alone: a file that parses is entered in
\* the cache as its last entry and the result is that of the cache so
\* extended; otherwise the cache is unchanged and the result empty. No file is
\* written, no other entry is changed, and every entry returned is one the
\* cache held before the call.
C23_OnlyTheQueryRecordIsRead ==
    [][ /\ res'.op = "search_by_query"
           => /\ UNCHANGED <<disk, embeddings_cache>>
              /\ res'.caught = ""
                    => res'.out = SortBySimilarity(
                           MatchingDocs(embeddings_cache, res'.query, res'.threshold))
        /\ res'.op = "find_similar_documents"
           => LET q == res'.stem IN
              /\ UNCHANGED disk
              /\ OutIds(res'.out) \subseteq Keys(embeddings_cache) \ {q}
              /\ res'.out = FromCacheAlone(embeddings_cache', q, res'.threshold)
              /\ IF ~Has(embeddings_cache, q) /\ embeddings_dir[q].kind = "doc"
                 THEN embeddings_cache' = Append(embeddings_cache, Item(q, embeddings_dir[q]))
                 ELSE UNCHANGED embeddings_cache
              /\ res'.caught =
                    (CASE Has(embeddings_cache, q) -> ""
                       [] embeddings_dir[q].kind = "absent" -> "FileNotFoundError"
                       [] embeddings_dir[q].kind = "corrupt" -> "JSONDecodeError"
                       [] OTHER -> "") ]_vars

\* The query id was not cached: its record was read from its file, entered
\* last in the cache, and two cached entries were found similar to it.
C23_Witness ==
    /\ res.op = "find_similar_documents"
    /\ res.stem = "c"
    /\ res.caught = ""
    /\ Len(embeddings_cache) = 3
    /\ embeddings_cache[3] = Item("c", embeddings_dir["c"])
    /\ cache_file.val = SubSeq(embeddings_cache, 1, 2)
    /\ Len(res.out) = 2

\* C24: in generate_embedding and in ChatBot.chat alike, the wait that follows
\* the k-th attempt is 2k seconds when that attempt was rate-limited (2, 4,
\* 6, ...), 1 second when it timed out and 2 seconds when the connection
\* failed; successive rate-limit waits grow strictly.
C24_BackoffDurations ==
    call.op \in {"generate_embedding", "chat"} =>
        /\ \A k \in 1..Len(call.out.waits) :
              call.out.waits[k] =
                  (CASE call.script[k].kind = "RateLimitError" -> 2 * k
                     [] call.script[k].kind = "APITimeoutError" -> 1
                     [] call.script[k].kind = "APIConnectionError" -> 2
                     [] OTHER -> -1)
        /\ \A j, k \in 1..Len(call.out.waits) :
              (/\ j < k
               /\ call.script[j].kind = "RateLimitError"
               /\ call.script[k].kind = "RateLimitError")
                  => call.out.waits[j] < call.out.waits[k]

\* chat was rate-limited three times and then answered: it waited 2, 4, 6.
C24_Witness ==
    /\ call.op = "chat"
    /\ call.max_retries = 4
    /\ call.out.waits = <<2, 4, 6>>
    /\ call.out.reply = "answer"

\* C25: get_document(id) raises FileNotFoundError whenever embeddings/ holds
\* no file for id and the parse error whenever the file is there but does not
\* parse; when it raises, the cache is as it was.
C25_GetTellsAbsentFromCorrupt ==
    [][ res'.op = "get_document"
            => /\ embeddings_dir[res'.stem].kind = "absent"
                     => res'.err = "FileNotFoundError"
               /\ embeddings_dir[res'.stem].kind = "corrupt"
                     => res'.err = "JSONDecodeError"
               /\ res'.err # "" => UNCHANGED <<embeddings_cache, disk>> ]_vars

\* The snapshot on disk lacks a record the store holds.
SnapshotOmitsRecord ==
    /\ cache_file.kind = "saved"
    /\ ParseableStems(embeddings_dir) \ Keys(cache_file.val) # {}

\* is_cache_valid() is false in a constructed manager, the running one or the
\* one set aside.
SomeManagerInvalid ==
    \/ pc = "ready" /\ ~IsCacheValid(embeddings_dir, embeddings_cache)
    \/ peer.pc = "ready" /\ ~IsCacheValid(embeddings_dir, peer.embeddings_cache)

CacheHoldsStore ==
    pc = "ready" => ParseableStems(embeddings_dir) \subseteq Keys(embeddings_cache)

C27_DimensionCheckIsPure ==
    [][ res'.op = "check_embedding_dimensions"
            => /\ UNCHANGED <<disk, memory>>
               /\ res'.consistent =
                     (\A m, n \in 1..Len(embeddings_cache) :
                         Len(embeddings_cache[m].doc.embedding)
                            = Len(embeddings_cache[n].doc.embedding)) ]_vars

\* Three entries, one without embedding and two of length 2: not consistent.
C27_Witness ==
    /\ res.op = "check_embedding_dimensions"
    /\ ~res.consistent
    /\ Len(embeddings_cache) = 3
    /\ \E n \in 1..3 : embeddings_cache[n].doc.embedding = <<>>
    /\ Cardinality(UniqueDims(embeddings_cache)) = 2

\* C28: cache metadata is advisory only. Of two runs that differ only in what
\* cache_metadata.json held at the start (nothing, unparseable text, or any
\* JSON value), the second, making the same calls as the first, decides the
\* same way at startup whether to rebuild, holds the same cache entries, and
\* gets the same outcome from every add_document and every retrieval call.
C28_MetadataIsAdvisory ==
    (res # NoRes /\ peer.res # NoRes) =>
        /\ res = peer.res
        /\ embeddings_cache = peer.embeddings_cache

\* C29: cosine_similarity is symmetric. For all equal-length non-zero vectors
\* a and b, cosine_similarity(a, b) equals cosine_similarity(b, a).
C29_CosineIsSymmetric ==
    ( /\ res.op = "cosine_similarity"
      /\ Len(res.query) = Len(res.other)
      /\ ~IsZeroVector(res.query)
      /\ ~IsZeroVector(res.other) )
        => /\ res.err = ""
           /\ res.similarity = CosineSimilarity(res.other, res.query).value

\* Two vectors of different norms, neither parallel nor orthogonal.
C29_Witness ==
    /\ res.op = "cosine_similarity"
    /\ res.query = <<1, 0>>
    /\ res.other = <<3, 4>>
    /\ res.similarity = Rat(3, 5)

\* The ids of the cache and of the snapshot all have a file in embeddings/.
HeldIdsHaveFiles(dir, cache, snapshot) ==
    Keys(cache) \cup Keys(LoadCache(snapshot)) \subseteq GlobStems(dir)

\* C30: add_document applies its effects in the order record-file write,
\* in-memory insert, snapshot persist, metadata persist; so at every
\* intermediate point every id held in the in-memory cache or in the snapshot
\* has a record file in the store, and a crash at any intermediate point
\* followed by a restart yields a cache whose id set equals that of the
\* store's records.
C30_AddDocumentOrderSurvivesCrash ==
    [][ /\ pc' = "written" =>
              /\ pc = "ready"
              /\ embeddings_dir'[res'.stem] = res'.doc
              /\ UNCHANGED <<cache_file, cache_metadata_file, memory>>
        /\ pc' = "inserted" =>
              /\ pc = "written"
              /\ Get(embeddings_cache', res.stem) = res.doc
              /\ UNCHANGED <<disk, cache_metadata>>
        /\ pc' = "saved" =>
              /\ pc = "inserted"
              /\ cache_file' = Saved(embeddings_cache)
              /\ UNCHANGED <<embeddings_dir, cache_metadata_file, memory>>
        /\ (pc = "saved" /\ pc' = "ready") =>
              UNCHANGED <<embeddings_dir, cache_file, embeddings_cache>>
        /\ pc' \in InAddDocument =>
              HeldIdsHaveFiles(embeddings_dir', embeddings_cache', cache_file')
        /\ (res.op = "crash" /\ res.stem # "" /\ res'.op = "startup") =>
              Keys(embeddings_cache') = ParseableStems(embeddings_dir') ]_vars

\* C31: search_by_query never raises. For any cache contents (entries
\* without embedding, with an embedding of another length or with components
\* that are no numbers), any query text, the empty one included, and any
\* threshold, out of range or no number at all, it returns a list.
C31_SearchNeverRaises ==
    res.op = "search_by_query" =>
        /\ res.err = ""
        /\ DOMAIN res.out = 1..Len(res.out)
        /\ \A n \in 1..Len(res.out) : Has(embeddings_cache, res.out[n].id)

\* A search with a threshold that is no number, over a cache with an entry
\* without embedding and an entry of non-numeric components: the comparison
\* raised and the search returned the empty list.
C31_Witness ==
    /\ res.op = "search_by_query"
    /\ res.threshold = NotAThreshold
    /\ res.caught = "TypeError"
    /\ res.out = <<>>
    /\ \E m, n \in 1..Len(embeddings_cache) :
          /\ embeddings_cache[m].doc.embedding = <<>>
          /\ ~IsNumeric(embeddings_cache[n].doc.embedding)

\* The snapshot is written and holds the ids of the cache, and
\* total_documents is the number of cache entries.
Persisted(cache, snapshot, md) ==
    /\ snapshot.kind = "saved"
    /\ Keys(snapshot.val) = Keys(cache)
    /\ md.total_documents = Len(cache)

C33_SecondStartupDoesNotRebuild ==
    [][ (res.op = "crash" /\ res'.op = "startup")
            => /\ res'.valid
               /\ ~res'.rebuilt
               /\ UNCHANGED disk ]_vars

\* C34: the attempt budget is shared across failure classes. For any
\* sequence of transient failures mixing rate-limit, timeout and connection
\* errors, generate_embedding terminates after at most max_retries provider
\* calls and at most max_retries - 1 waits, and the error it raises is the
\* class of the last attempt's failure.
C34_SharedAttemptBudget ==
    LET n == call.max_retries
        s == call.script
        o == call.out
    IN
    (call.op = "generate_embedding" /\ n >= 1) =>
        /\ o.calls <= n
        /\ Len(o.waits) <= n - 1
        /\ (\A k \in 1..o.calls : s[k].kind \in Transient) =>
              /\ o.calls = n
              /\ Len(o.waits) = n - 1
              /\ \A k \in 1..(n - 1) : o.waits[k] = WaitTime(s[k].kind, k - 1)
              /\ o.ret = "raise"
              /\ o.err = s[n].kind

\* Three attempts failing in three ways: two waits, and the third failure is
\* the one raised.
C34_Witness ==
    /\ call.op = "generate_embedding"
    /\ call.max_retries = 3
    /\ call.script[1].kind = "APITimeoutError"
    /\ call.script[2].kind = "APIConnectionError"
    /\ call.script[3].kind = "RateLimitError"
    /\ call.out.ret = "raise"
    /\ call.out.err = "RateLimitError"
    /\ call.out.calls = 3
    /\ call.out.waits = <<TimeoutWait, ConnectionWait>>

\* C35: for every max_retries >= 0, whenever generate_embedding returns
\* normally its result is the embedding of a successful provider call; it
\* never returns a missing value.
C35_ReturnsAnEmbeddingOrRaises ==
    LET o == call.out IN
    (call.op = "generate_embedding" /\ o.ret # "raise") =>
        /\ o.ret = "embedding"
        /\ o.calls >= 1
        /\ call.script[o.calls].kind = "ok"
        /\ o.embedding = call.script[o.calls].embedding

\* C36: in ChatBot.chat every retry after a transient completion failure
\* re-runs search_by_query. A chat call whose completion attempt fails
\* transiently k times (k < max_retries) and then succeeds has issued k + 1
\* query-embedding requests, each with its own inner retry budget, and chat
\* returns a string (never raises) for max_retries >= 1.
C36_RetryRerunsSearch ==
    LET n == call.max_retries
        s == call.script
        o == call.out
        Found(j) == SearchByQueryReturn(embeddings_cache, s[j].g, ChatThreshold) # <<>>
    IN
    (call.op = "chat" /\ n >= 1) =>
        /\ o.reply # "None"
        /\ \A k \in 0..(n - 1) :
              (/\ \A j \in 1..(k + 1) : Found(j)
               /\ \A j \in 1..k : s[j].kind \in Transient
               /\ s[k + 1].kind = "ok")
              => /\ o.reply = "answer"
                 /\ Len(o.requests) = k + 1
                 /\ \A j \in 1..(k + 1) :
                       /\ o.requests[j] = s[j].g.calls
                       /\ o.requests[j] \in 1..DefaultMaxRetries
                 /\ o.calls = k + 1
                 /\ Len(o.waits) = k

\* Two transient completion failures, then an answer: three searches, which
\* made three, one and two embedding requests.
C36_Witness ==
    /\ call.op = "chat"
    /\ call.max_retries = 3
    /\ call.script[1].kind = "RateLimitError"
    /\ call.script[2].kind = "APIConnectionError"
    /\ call.out.reply = "answer"
    /\ call.out.requests = <<3, 1, 2>>
    /\ call.out.calls = 3

\* C37: at a threshold <= 0 an entry whose embedding length differs from the
\* query's is returned by find_similar_documents and search_by_query with
\* similarity 0.0 - its result entry is the one an entry of genuine
\* similarity 0.0 gets, nothing in it tells the two apart - while entries of
\* negative similarity are excluded at threshold 0.
C37_MismatchReturnedAsZero ==
    LET Entry(item) ==
            IF res.op = "search_by_query"
            THEN MatchingDoc(item, Zero)
            ELSE SimilarDoc(item, Zero)
        Compared(item) ==
            /\ item.id # res.stem
            /\ item.doc.embedding # <<>>
        Returned_(item) == \E m \in 1..Len(res.out) : res.out[m].id = item.id
    IN
    (/\ res.op \in {"find_similar_documents", "search_by_query"}
     /\ res.caught = ""
     /\ res.query # <<>>
     /\ RatGeq(Zero, res.threshold))
    => \A n \in 1..Len(embeddings_cache) :
          LET item == embeddings_cache[n]
              c == CosineComputed(res.query, item.doc.embedding)
          IN
          Compared(item) =>
             /\ Len(item.doc.embedding) # Len(res.query)
                   => \E m \in 1..Len(res.out) : res.out[m] = Entry(item)
             /\ (c.raised = "" /\ RatEq(c.value, Zero))
                   => \E m \in 1..Len(res.out) : res.out[m] = Entry(item)
             /\ (res.threshold = Zero /\ c.raised = "" /\ ~RatGeq(c.value, Zero))
                   => ~Returned_(item)

\* A search at threshold 0 with the query <<0, 1>> on a cache holding an
\* orthogonal entry, an entry of another length and an opposed entry: the
\* first two are returned with similarity 0, the third is not.
C37_Witness ==
    /\ res.op = "search_by_query"
    /\ res.threshold = Zero
    /\ res.query = <<0, 1>>
    /\ Has(embeddings_cache, "a") /\ Get(embeddings_cache, "a").embedding = <<1, 0>>
    /\ Has(embeddings_cache, "b") /\ Get(embeddings_cache, "b").embedding = <<-3, -4>>
    /\ Has(embeddings_cache, "c") /\ Get(embeddings_cache, "c").embedding = <<1>>
    /\ {res.out[m].id : m \in 1..Len(res.out)} = {"a", "c"}
    /\ \A m \in 1..Len(res.out) : res.out[m].similarity = Zero

\* What add_document raises when writing the record file fails.
WriteErrors == WriteOutcomes \ {"ok"}

\* C38: if writing the record file fails in add_document, after the
\* embedding was obtained, the call raises (it returns no doc_id) and the
\* in-memory cache entries, the persisted snapshot and the metadata, in
\* memory and on disk, are as they were before the call.
C38_FailedWriteLeavesCacheAlone ==
    [][ (res'.op = "add_document" /\ res'.err \in WriteErrors)
            => /\ res'.extracted
               /\ res'.calls >= 1
               /\ res'.doc = AbsentFile
               /\ UNCHANGED <<embeddings_cache, cache_file,
                              cache_metadata, cache_metadata_file>> ]_vars

\* A second ingestion of a document whose write fails after the file was
\* opened: the cache and the snapshot keep the record of the first while the
\* record file is unreadable.
C38_Witness ==
    /\ res.op = "add_document"
    /\ res.err = "OSError"
    /\ res.calls >= 1
    /\ Has(embeddings_cache, res.stem)
    /\ cache_file = SaveCache(embeddings_cache)
    /\ embeddings_dir[res.stem] = CorruptFile

====
